---- MODULE Spec2Model ----
(***************************************************************************)
(* A model of the supersim MIPS emulator: the processor (CPU::tick and     *)
(* every opcode it dispatches to), the RAM (Memory) and the driver         *)
(* (Computer::cpu_step).                                                   *)
(*                                                                         *)
(* A u32 is modelled exactly, as the pair <<high halfword, low halfword>>, *)
(* because the model checker's integers are narrower than 2^32.            *)
(***************************************************************************)
EXTENDS Integers, Sequences, FiniteSets, TLC

VARIABLES
    int_reg,          \* CPU.int_reg: [u32; 32]
    cp0_reg,          \* CPU.cp0_reg: [u32; 32]
    hi, lo,           \* CPU.hi, CPU.lo
    cp1_reg,          \* CPU.cp1_reg: [f32; 32], kept as bit patterns
    cc,               \* CPU.cc: [bool; 8]
    pc,               \* CPU.pc
    memory_buffer,    \* CPU.memory_buffer
    phase,            \* CPU.phase
    ram,              \* Computer.ram, the bytes that differ from the initial zero
    fault,            \* "none", or the message of the panic that ended the process
    overflow_checks,  \* the build profile: TRUE when integer overflow panics (debug)
    raised,           \* history: the exceptions taken in the last tick or cpu_step
    last_exception,   \* history: the latest exception taken, <<>> before the first
    decoded,          \* history: the word the latest DecodeAndExecute tick decoded
    ticks,            \* history: the number of tick calls so far
    executed,         \* history: the instruction words cpu_step has run so far
    bus               \* history: the RAM accesses of the last cpu_step

vars == <<int_reg, cp0_reg, hi, lo, cp1_reg, cc, pc, memory_buffer, phase, ram,
          fault, overflow_checks, raised, last_exception, decoded, ticks,
          executed, bus>>

-----------------------------------------------------------------------------
(* Bounds of the model.                                                    *)

\* The number of tick calls a behaviour of Spec makes.
MaxTicks == 12
\* The number of cpu_step calls a behaviour of SpecDriver makes.
MaxSteps == 4
\* The number of instructions of a program image of SpecDriver.
ProgramLen == 3

-----------------------------------------------------------------------------
(* 32-bit words.                                                           *)

Half == 2 ^ 16
Byte == 2 ^ 8

W(h, l) == <<h, l>>
Zero32 == W(0, 0)
One32 == W(0, 1)
U32(n) == W(n \div Half, n % Half)          \* for 0 <= n < 2^31

RECURSIVE BitAnd(_, _)
BitAnd(x, y) ==
    IF x = 0 \/ y = 0 THEN 0
    ELSE (x % 2) * (y % 2) + 2 * BitAnd(x \div 2, y \div 2)

RECURSIVE BitOr(_, _)
BitOr(x, y) ==
    IF x = 0 THEN y
    ELSE IF y = 0 THEN x
    ELSE (IF x % 2 = 1 \/ y % 2 = 1 THEN 1 ELSE 0) + 2 * BitOr(x \div 2, y \div 2)

RECURSIVE BitXor(_, _)
BitXor(x, y) ==
    IF x = 0 THEN y
    ELSE IF y = 0 THEN x
    ELSE (IF x % 2 # y % 2 THEN 1 ELSE 0) + 2 * BitXor(x \div 2, y \div 2)

And32(a, b) == W(BitAnd(a[1], b[1]), BitAnd(a[2], b[2]))
Or32(a, b) == W(BitOr(a[1], b[1]), BitOr(a[2], b[2]))
Xor32(a, b) == W(BitXor(a[1], b[1]), BitXor(a[2], b[2]))
Not32(a) == W(Half - 1 - a[1], Half - 1 - a[2])

\* wrapping u32 addition and subtraction
Add32(a, b) ==
    LET s == a[2] + b[2]
    IN  W((a[1] + b[1] + s \div Half) % Half, s % Half)
Sub32(a, b) == Add32(a, Add32(Not32(b), One32))

\* a + b does not fit in a u32
CarryU32(a, b) == a[1] + b[1] + (a[2] + b[2]) \div Half >= Half
\* a - b is below zero as u32
BorrowU32(a, b) == a[1] < b[1] \/ (a[1] = b[1] /\ a[2] < b[2])

\* the sign bit: the word read as i32 is negative
Neg32(a) == a[1] >= Half \div 2
\* a + b, a - b do not fit in an i32
OverflowAddI32(a, b) == Neg32(a) = Neg32(b) /\ Neg32(Add32(a, b)) # Neg32(a)
OverflowSubI32(a, b) == Neg32(a) # Neg32(b) /\ Neg32(Sub32(a, b)) # Neg32(a)

LtU32(a, b) == a[1] < b[1] \/ (a[1] = b[1] /\ a[2] < b[2])
LtI32(a, b) ==
    IF Neg32(a) # Neg32(b) THEN Neg32(a) ELSE LtU32(a, b)
\* the word read as i32 is > 0
Pos32(a) == ~Neg32(a) /\ a # Zero32

\* imm as i16 as i32 as u32
SignExtend16(imm) == W(IF imm >= Half \div 2 THEN Half - 1 ELSE 0, imm)
\* (b & 0xFF) as u8 as i8 as i32 as u32
SignExtend8(b) ==
    IF b >= Byte \div 2 THEN W(Half - 1, Half - Byte + b) ELSE W(0, b)

\* address & 0x80000000 != 0
Bit31(a) == a[1] >= Half \div 2

\* the four bytes of a word, most significant first (u32::to_be_bytes)
BeBytes(w) == <<w[1] \div Byte, w[1] % Byte, w[2] \div Byte, w[2] % Byte>>
FromBeBytes(b) == W(b[1] * Byte + b[2], b[3] * Byte + b[4])

\* word << n and word >> n for 0 <= n < 16
Shl32(w, n) ==
    W((w[1] * 2 ^ n + w[2] \div 2 ^ (16 - n)) % Half, (w[2] * 2 ^ n) % Half)
Shr32(w, n) ==
    W(w[1] \div 2 ^ n, ((w[1] % 2 ^ n) * 2 ^ (16 - n) + w[2] \div 2 ^ n) % Half)

\* word << n and word >> n for 0 <= n < 32, and the arithmetic (i32) >> n
ShlN(w, n) == IF n >= 16 THEN W((w[2] * 2 ^ (n - 16)) % Half, 0) ELSE Shl32(w, n)
ShrN(w, n) == IF n >= 16 THEN W(0, w[1] \div 2 ^ (n - 16)) ELSE Shr32(w, n)
SraN(w, n) == IF Neg32(w) THEN Not32(ShrN(Not32(w), n)) ELSE ShrN(w, n)

\* the word as an i32, and back
ToI32(w) == IF Neg32(w) THEN (w[1] - Half) * Half + w[2] ELSE w[1] * Half + w[2]
FromI32(n) == IF n < 0 THEN W((n \div Half) + Half, n % Half) ELSE W(n \div Half, n % Half)

-----------------------------------------------------------------------------
(* The processor state as one value, so that the opcodes compose.          *)

NoFault == "none"

CpuRec ==
    [int_reg |-> int_reg, cp0_reg |-> cp0_reg, hi |-> hi, lo |-> lo,
     cp1_reg |-> cp1_reg, cc |-> cc, pc |-> pc, memory_buffer |-> memory_buffer,
     phase |-> phase, fault |-> fault, overflow_checks |-> overflow_checks,
     raised |-> raised]

\* panic!(..), or a panic of the runtime: the process ends with this message
Panic(c, msg) == IF c.fault = NoFault THEN [c EXCEPT !.fault = msg] ELSE c

\* the registers an exception must or must not touch, for the history variable raised
Snapshot(c) ==
    [int_reg |-> c.int_reg, cp0_reg |-> c.cp0_reg, hi |-> c.hi, lo |-> c.lo,
     cp1_reg |-> c.cp1_reg, cc |-> c.cc, pc |-> c.pc]

EmptyBuffer ==
    [address |-> Zero32, data |-> Zero32, data_size |-> 0, store |-> FALSE,
     write_back_register |-> 0, sign_extended |-> FALSE, partial_write |-> <<>>]

MemoryBuffer(address, data, data_size, store, write_back_register, sign_extended, partial_write) ==
    [address |-> address, data |-> data, data_size |-> data_size, store |-> store,
     write_back_register |-> write_back_register, sign_extended |-> sign_extended,
     partial_write |-> partial_write]

EXCEPTION_HANDLER_ADDRESS == W(32768, 384)     \* 0x8000_0180

\* enum ExceptionCode
Interrupt == 0
IllegalAddressLoad == 4
IllegalAddressStore == 5
Syscall == 8
Break == 9
Overflow == 12
CalledTrap == 13

\* the indices of the cp0 registers the code names
BadVaddrReg == 8
StatusReg == 12
CauseReg == 13
EpcReg == 14

CPU_new(oc) ==
    [int_reg |-> [r \in 0..31 |-> Zero32],
     cp0_reg |-> [r \in 0..31 |-> IF r = StatusReg THEN W(0, 255 * Byte + 1) ELSE Zero32],
     hi |-> Zero32, lo |-> Zero32,
     cp1_reg |-> [r \in 0..31 |-> Zero32],
     cc |-> [r \in 0..7 |-> FALSE],
     pc |-> Zero32, memory_buffer |-> EmptyBuffer, phase |-> "Fetch",
     fault |-> NoFault, overflow_checks |-> oc, raised |-> <<>>]

is_kernel_mode(c) == (c.cp0_reg[StatusReg][2] \div 2) % 2 = 0

\* write_to_reg without its arm `0 => {}`
write_to_reg_AnyRegister(c, reg_num, val) ==
    IF reg_num \in 0..31 THEN [c EXCEPT !.int_reg[reg_num] = val]
    ELSE Panic(c, "Bad register number")

write_to_reg(c, reg_num, val) ==
    IF reg_num = 0 THEN c
    ELSE IF reg_num \in 1..31 THEN [c EXCEPT !.int_reg[reg_num] = val]
    ELSE Panic(c, "Bad register number")

\* ExceptionCause without `*cause &= !0b1111100`: the new code is or-ed into the old
ExceptionCause_NoClear(cause, exception_code) ==
    W(cause[1], (cause[2] - ((cause[2] \div 4) % 32) * 4)
                + BitOr((cause[2] \div 4) % 32, exception_code % 32) * 4)

\* execute_exception: *cause &= !0b1111100; *cause |= (code & 0b11111) << 2
ExceptionCause(cause, exception_code) ==
    W(cause[1], (cause[2] - ((cause[2] \div 4) % 32) * 4) + (exception_code % 32) * 4)

ExceptionStatus_KeepsCurrent(status) ==
    W(status[1], (status[2] - ((status[2] \div 4) % 16) * 4) + 15 * 4)

\* execute_exception: previous_current_status = 0b1111; *status &= !0b111111;
\* *status |= previous_current_status << 2
ExceptionStatus(status) ==
    W(status[1], (status[2] - (status[2] % 64)) + 15 * 4)

\* execute_exception: if let Some(address) = bad_address { cp0_reg[8] = address }
\* bad_address is <<>> for None and <<address>> for Some(address)
ExceptionBadVaddr(cp0, bad_address) ==
    IF bad_address # <<>> THEN [cp0 EXCEPT ![BadVaddrReg] = bad_address[1]] ELSE cp0

execute_exception(c, exception_code, bad_address) ==
    LET cp0a == ExceptionBadVaddr(c.cp0_reg, bad_address)
        cp0b == [cp0a EXCEPT ![CauseReg] = ExceptionCause(@, exception_code),
                             ![StatusReg] = ExceptionStatus(@),
                             ![EpcReg] = c.pc]
        after == [c EXCEPT !.cp0_reg = cp0b, !.pc = EXCEPTION_HANDLER_ADDRESS]
    IN  [after EXCEPT !.raised =
            Append(@, [code |-> exception_code, bad |-> bad_address,
                       pre |-> Snapshot(c), post |-> Snapshot(after)])]

\* *cause &= !(0xFF << 8); *cause |= (interrupt_requests as u32) << 8
set_interrupt_requests(c, interrupt_requests) ==
    [c EXCEPT !.cp0_reg[CauseReg] = W(@[1], (@[2] % Byte) + interrupt_requests * Byte)]

\* handle_interrupts without its return on `!interrupts_enabled`
handle_interrupts_IgnoresEnable(c, interrupt_requests) ==
    IF BitAnd(interrupt_requests, (c.cp0_reg[StatusReg][2] \div Byte) % Byte) # 0
    THEN execute_exception(c, Interrupt, <<>>)
    ELSE c

handle_interrupts(c, interrupt_requests) ==
    LET status == c.cp0_reg[StatusReg]
        interrupts_enabled == status[2] % 2 = 1
        mask == (status[2] \div Byte) % Byte
        non_masked_interrupts == BitAnd(interrupt_requests, mask)
    IN  IF ~interrupts_enabled THEN c
        ELSE IF non_masked_interrupts # 0 THEN execute_exception(c, Interrupt, <<>>)
        ELSE c

-----------------------------------------------------------------------------
(* Arithmetic the opcodes need.                                            *)

AddOverflowMsg == "attempt to add with overflow"
SubOverflowMsg == "attempt to subtract with overflow"
MulOverflowMsg == "attempt to multiply with overflow"
ShlOverflowMsg == "attempt to shift left with overflow"
ShrOverflowMsg == "attempt to shift right with overflow"
DivZeroMsg == "attempt to divide by zero"
DivOverflowMsg == "attempt to divide with overflow"
RemZeroMsg == "attempt to calculate the remainder with a divisor of zero"

\* the bytes of a word, least significant first
LeBytes(w) == <<w[2] % Byte, w[2] \div Byte, w[1] % Byte, w[1] \div Byte>>

\* column k (0..6) of the schoolbook product of two 4-byte numbers
MulColumn(A, B, k) ==
    LET term(i) == IF k - i \in 0..3 THEN A[i + 1] * B[k - i + 1] ELSE 0
    IN  term(0) + term(1) + term(2) + term(3)

RECURSIVE MulDigits(_, _, _, _)
MulDigits(A, B, k, carry) ==
    IF k = 8 THEN <<>>
    ELSE LET t == (IF k <= 6 THEN MulColumn(A, B, k) ELSE 0) + carry
         IN  <<t % Byte>> \o MulDigits(A, B, k + 1, t \div Byte)

\* the 64-bit product of two u32, as <<high word, low word>>
MulU64(a, b) ==
    LET d == MulDigits(LeBytes(a), LeBytes(b), 0, 0)
    IN  <<W(d[8] * Byte + d[7], d[6] * Byte + d[5]),
          W(d[4] * Byte + d[3], d[2] * Byte + d[1])>>

\* i32 / i32 and i32 % i32 of Rust (truncating), on integers; b # 0, not MIN / -1
MinI32 == (0 - Half \div 2) * Half
TruncDivPos(a, b) ==        \* a / b for b > 0: -floor(|a| / b) for a < 0, also for MinI32
    IF a >= 0 THEN a \div b
    ELSE LET n == 0 - (a + 1) IN 0 - (n \div b) - (IF n % b = b - 1 THEN 1 ELSE 0)
TruncDiv(a, b) ==
    IF b > 0 THEN TruncDivPos(a, b)
    ELSE IF b = MinI32 THEN (IF a = MinI32 THEN 1 ELSE 0)
    ELSE -TruncDivPos(a, -b)
TruncRem(a, b) == a - TruncDiv(a, b) * b

\* u32 / u32 and u32 % u32 by binary long division; b # 0
BitOf(w, i) == IF i >= 16 THEN (w[1] \div 2 ^ (i - 16)) % 2 ELSE (w[2] \div 2 ^ i) % 2
DivStep(a, b, i, qr) ==           \* bring bit i of a down; qr = <<q, r>> and r < b
    LET q == qr[1]
        r == qr[2]
        bit == W(0, BitOf(a, i))
        fits == ~LtU32(Add32(r, bit), Sub32(b, r))          \* 2r + bit >= b
    IN  <<Add32(Add32(q, q), IF fits THEN One32 ELSE Zero32),
          IF fits THEN Sub32(Add32(r, bit), Sub32(b, r)) ELSE Add32(Add32(r, r), bit)>>
RECURSIVE DivModU32(_, _, _, _)
DivModU32(a, b, i, qr) ==         \* bits i..0 of a are still to bring down
    IF i < 0 THEN qr
    ELSE CHOOSE result \in {DivModU32(a, b, i - 1, next) : next \in {DivStep(a, b, i, qr)}} :
             TRUE
DivU32(a, b) == DivModU32(a, b, 31, <<Zero32, Zero32>>)[1]
RemU32(a, b) == DivModU32(a, b, 31, <<Zero32, Zero32>>)[2]

-----------------------------------------------------------------------------
(* The opcodes, impl CPU.                                                  *)

sll(c, rd, rt, shamt) == write_to_reg(c, rd, ShlN(c.int_reg[rt], shamt % 32))
srl(c, rd, rt, shamt) == write_to_reg(c, rd, ShrN(c.int_reg[rt], shamt % 32))
sra(c, rd, rt, shamt) == write_to_reg(c, rd, SraN(c.int_reg[rt], shamt % 32))

\* a shift by a register: at 32 or more it panics with overflow checks, and
\* takes the amount modulo 32 without
ShiftTooFar(op2) == op2[1] # 0 \/ op2[2] >= 32

sllv(c, rd, rt, rs) ==
    LET op1 == c.int_reg[rt]
        op2 == c.int_reg[rs]
    IN  IF c.overflow_checks /\ ShiftTooFar(op2) THEN Panic(c, ShlOverflowMsg)
        ELSE write_to_reg(c, rd, ShlN(op1, op2[2] % 32))

srlv(c, rd, rt, rs) ==
    LET op1 == c.int_reg[rt]
        op2 == c.int_reg[rs]
    IN  IF c.overflow_checks /\ ShiftTooFar(op2) THEN Panic(c, ShrOverflowMsg)
        ELSE write_to_reg(c, rd, ShrN(op1, op2[2] % 32))

srav(c, rd, rt, rs) ==
    LET op1 == c.int_reg[rt]
        op2 == c.int_reg[rs]
    IN  IF c.overflow_checks /\ ShiftTooFar(op2) THEN Panic(c, ShrOverflowMsg)
        ELSE write_to_reg(c, rd, SraN(op1, op2[2] % 32))

jr(c, rs) == [c EXCEPT !.pc = c.int_reg[rs]]

jalr(c, rd, rs) ==
    LET linked == write_to_reg(c, rd, c.pc)
    IN  [linked EXCEPT !.pc = linked.int_reg[rs]]

syscall(c) == execute_exception(c, Syscall, <<>>)

mfhi(c, rd) == write_to_reg(c, rd, c.hi)
mthi(c, rs) == [c EXCEPT !.hi = c.int_reg[rs]]
mflo(c, rd) == write_to_reg(c, rd, c.lo)
mtlo(c, rs) == [c EXCEPT !.lo = c.int_reg[rs]]

\* op1 and op2 are `as u64 as i64`: zero-extended, so the i64 product
\* overflows at 2^63
mult(c, rs, rt) ==
    LET result == MulU64(c.int_reg[rs], c.int_reg[rt])
    IN  IF c.overflow_checks /\ Neg32(result[1]) THEN Panic(c, MulOverflowMsg)
        ELSE [c EXCEPT !.hi = result[1], !.lo = result[2]]

multu(c, rs, rt) ==
    LET result == MulU64(c.int_reg[rs], c.int_reg[rt])
    IN  [c EXCEPT !.hi = result[1], !.lo = result[2]]

div(c, rs, rt) ==
    LET op1 == ToI32(c.int_reg[rs])
        op2 == ToI32(c.int_reg[rt])
    IN  IF op2 = 0 THEN Panic(c, DivZeroMsg)
        ELSE IF op1 = MinI32 /\ op2 = -1 THEN Panic(c, DivOverflowMsg)
        ELSE [c EXCEPT !.lo = FromI32(TruncDiv(op1, op2)),
                       !.hi = FromI32(TruncRem(op1, op2))]

divu(c, rs, rt) ==
    LET op1 == c.int_reg[rs]
        op2 == c.int_reg[rt]
    IN  IF op2 = Zero32 THEN Panic(c, DivZeroMsg)
        ELSE [c EXCEPT !.lo = DivU32(op1, op2), !.hi = RemU32(op1, op2)]

add(c, rd, rs, rt) ==
    LET op1 == c.int_reg[rs]
        op2 == c.int_reg[rt]
        result == Add32(op1, op2)
        overflow == (Pos32(op1) /\ Pos32(op2) /\ Neg32(result))
                    \/ (Neg32(op1) /\ Neg32(op2) /\ Pos32(result))
    IN  IF c.overflow_checks /\ OverflowAddI32(op1, op2) THEN Panic(c, AddOverflowMsg)
        ELSE write_to_reg(IF overflow THEN execute_exception(c, Overflow, <<>>) ELSE c,
                          rd, result)

addu(c, rd, rs, rt) ==
    LET op1 == c.int_reg[rs]
        op2 == c.int_reg[rt]
    IN  IF c.overflow_checks /\ CarryU32(op1, op2) THEN Panic(c, AddOverflowMsg)
        ELSE write_to_reg(c, rd, Add32(op1, op2))

sub(c, rd, rs, rt) ==
    LET op1 == c.int_reg[rs]
        op2 == c.int_reg[rt]
        result == Sub32(op1, op2)
        overflow == (Neg32(op1) /\ Pos32(op2) /\ Pos32(result))
                    \/ (Pos32(op1) /\ Neg32(op2) /\ Neg32(result))
    IN  IF c.overflow_checks /\ OverflowSubI32(op1, op2) THEN Panic(c, SubOverflowMsg)
        ELSE write_to_reg(IF overflow THEN execute_exception(c, Overflow, <<>>) ELSE c,
                          rd, result)

subu(c, rd, rs, rt) ==
    LET op1 == c.int_reg[rs]
        op2 == c.int_reg[rt]
    IN  IF c.overflow_checks /\ BorrowU32(op1, op2) THEN Panic(c, SubOverflowMsg)
        ELSE write_to_reg(c, rd, Sub32(op1, op2))

and(c, rd, rs, rt) == write_to_reg(c, rd, And32(c.int_reg[rs], c.int_reg[rt]))
or(c, rd, rs, rt) == write_to_reg(c, rd, Or32(c.int_reg[rs], c.int_reg[rt]))
xor(c, rd, rs, rt) == write_to_reg(c, rd, Xor32(c.int_reg[rs], c.int_reg[rt]))
nor(c, rd, rs, rt) == write_to_reg(c, rd, Not32(Or32(c.int_reg[rs], c.int_reg[rt])))

\* difference = op1 - op2 as i32; result = difference < 0
slt(c, rd, rs, rt) ==
    LET op1 == c.int_reg[rs]
        op2 == c.int_reg[rt]
        difference == Sub32(op1, op2)
    IN  IF c.overflow_checks /\ OverflowSubI32(op1, op2) THEN Panic(c, SubOverflowMsg)
        ELSE write_to_reg(c, rd, IF Neg32(difference) THEN One32 ELSE Zero32)

sltu(c, rd, rs, rt) ==
    write_to_reg(c, rd, IF LtU32(c.int_reg[rs], c.int_reg[rt]) THEN One32 ELSE Zero32)

\* j without `upper`: the new PC is address << 2 alone
j_WithoutUpper(c, address) ==
    LET a26 == address % (2 ^ 26)
    IN  [c EXCEPT !.pc = W((a26 \div 2 ^ 14) % 2 ^ 12, (a26 % 2 ^ 14) * 4)]

j(c, address) ==
    LET a26 == address % (2 ^ 26)
        upper == (c.pc[1] \div 2 ^ 12) * 2 ^ 12              \* pc & 0xF0000000
        lower == W((a26 \div 2 ^ 14) % 2 ^ 12, (a26 % 2 ^ 14) * 4)   \* address << 2
    IN  [c EXCEPT !.pc = W(upper + lower[1], lower[2])]

RETURN_ADDRESS_REG == 31

jal(c, address) == j(write_to_reg(c, RETURN_ADDRESS_REG, c.pc), address)

\* offset = ((imm as i16) * 4) as i32: the product is an i16;
\* new_pc = (pc as i32 + offset) as u32
branch(c, imm) ==
    LET imm16 == IF imm >= Half \div 2 THEN imm - Half ELSE imm
        product == imm16 * 4
        fits == product >= -(Half \div 2) /\ product < Half \div 2
        offset == FromI32(((product + Half \div 2) % Half) - Half \div 2)
    IN  IF c.overflow_checks /\ ~fits THEN Panic(c, MulOverflowMsg)
        ELSE IF c.overflow_checks /\ OverflowAddI32(c.pc, offset)
        THEN Panic(c, AddOverflowMsg)
        ELSE [c EXCEPT !.pc = Add32(c.pc, offset)]

beq(c, rs, rt, imm) == IF c.int_reg[rs] = c.int_reg[rt] THEN branch(c, imm) ELSE c
bne(c, rs, rt, imm) == IF c.int_reg[rs] # c.int_reg[rt] THEN branch(c, imm) ELSE c
\* int_reg[rs] <= 0 and int_reg[rs] > 0 compare a u32
blez(c, rs, imm) == IF c.int_reg[rs] = Zero32 THEN branch(c, imm) ELSE c
bgtz(c, rs, imm) == IF c.int_reg[rs] # Zero32 THEN branch(c, imm) ELSE c

addi(c, rt, rs, imm) ==
    LET op1 == c.int_reg[rs]
        op2 == SignExtend16(imm)
        result == Add32(op1, op2)
        overflow == (Neg32(op1) /\ Neg32(op2) /\ Pos32(result))
                    \/ (Pos32(op1) /\ Pos32(op2) /\ Neg32(result))
    IN  IF c.overflow_checks /\ OverflowAddI32(op1, op2) THEN Panic(c, AddOverflowMsg)
        ELSE write_to_reg(IF overflow THEN execute_exception(c, Overflow, <<>>) ELSE c,
                          rt, result)

addiu(c, rt, rs, imm) ==
    LET op1 == c.int_reg[rs]
        op2 == SignExtend16(imm)
    IN  IF c.overflow_checks /\ CarryU32(op1, op2) THEN Panic(c, AddOverflowMsg)
        ELSE write_to_reg(c, rt, Add32(op1, op2))

slti(c, rt, rs, imm) ==
    write_to_reg(c, rt, IF LtI32(c.int_reg[rs], SignExtend16(imm)) THEN One32 ELSE Zero32)
sltiu(c, rt, rs, imm) ==
    write_to_reg(c, rt, IF LtU32(c.int_reg[rs], SignExtend16(imm)) THEN One32 ELSE Zero32)

andi(c, rt, rs, imm) == write_to_reg(c, rt, And32(c.int_reg[rs], W(0, imm)))
ori(c, rt, rs, imm) == write_to_reg(c, rt, Or32(c.int_reg[rs], W(0, imm)))
xori(c, rt, rs, imm) == write_to_reg(c, rt, Xor32(c.int_reg[rs], W(0, imm)))
lui(c, rt, imm) == write_to_reg(c, rt, W(imm, 0))

\* int_reg[rs] + (imm as i16 as i32 as u32): a u32 sum
EffectiveAddress(c, rs, imm) == Add32(c.int_reg[rs], SignExtend16(imm))
EffectiveAddressOverflows(c, rs, imm) ==
    c.overflow_checks /\ CarryU32(c.int_reg[rs], SignExtend16(imm))

\* (int_reg[base] as i32 + (offset as i16 as i32)) as u32: an i32 sum
EffectiveAddressI32Overflows(c, base, offset) ==
    c.overflow_checks /\ OverflowAddI32(c.int_reg[base], SignExtend16(offset))

Load(c, rt, rs, imm, data_size, sign_extended) ==
    IF EffectiveAddressOverflows(c, rs, imm) THEN Panic(c, AddOverflowMsg)
    ELSE [c EXCEPT !.memory_buffer =
            MemoryBuffer(EffectiveAddress(c, rs, imm), Zero32, data_size, FALSE, rt,
                         sign_extended, <<>>)]

lb(c, rt, rs, imm) == Load(c, rt, rs, imm, 1, FALSE)
lh(c, rt, rs, imm) == Load(c, rt, rs, imm, 2, TRUE)
lw(c, rt, rs, imm) == Load(c, rt, rs, imm, 4, TRUE)
lbu(c, rt, rs, imm) == Load(c, rt, rs, imm, 1, FALSE)
lhu(c, rt, rs, imm) == Load(c, rt, rs, imm, 2, FALSE)

Store(c, rs, imm, data, data_size) ==
    IF EffectiveAddressOverflows(c, rs, imm) THEN Panic(c, AddOverflowMsg)
    ELSE [c EXCEPT !.memory_buffer =
            MemoryBuffer(EffectiveAddress(c, rs, imm), data, data_size, TRUE, 0,
                         FALSE, <<>>)]

sb(c, rt, rs, imm) == Store(c, rs, imm, W(0, c.int_reg[rt][2] % Byte), 1)
sh(c, rt, rs, imm) == Store(c, rs, imm, W(0, c.int_reg[rt][2]), 2)
sw(c, rt, rs, imm) == Store(c, rs, imm, c.int_reg[rt], 4)

\* address - address % 4
WordAddress(address) == W(address[1], address[2] - (address[2] % 4))

lwl(c, rt, base, offset) ==
    LET address == EffectiveAddress(c, base, offset)
        bytes_count == 4 - (address[2] % 4)
    IN  IF EffectiveAddressI32Overflows(c, base, offset) THEN Panic(c, AddOverflowMsg)
        ELSE [c EXCEPT !.memory_buffer =
                MemoryBuffer(WordAddress(address), Zero32, 4, FALSE, rt, FALSE,
                             <<0, bytes_count - 1>>)]

lwr(c, rt, base, offset) ==
    LET address == EffectiveAddress(c, base, offset)
        bytes_count == (address[2] % 4) + 1
    IN  IF EffectiveAddressI32Overflows(c, base, offset) THEN Panic(c, AddOverflowMsg)
        ELSE [c EXCEPT !.memory_buffer =
                MemoryBuffer(WordAddress(address), Zero32, 4, FALSE, rt, FALSE,
                             <<4 - bytes_count, 3>>)]

BadPrivilegeMsg == "Bad privilege"

mfc0(c, rt, rd) ==
    IF ~is_kernel_mode(c) THEN Panic(c, BadPrivilegeMsg)
    ELSE write_to_reg(c, rt, c.cp0_reg[rd])

mtc0(c, rt, rd) ==
    IF ~is_kernel_mode(c) THEN Panic(c, BadPrivilegeMsg)
    ELSE [c EXCEPT !.cp0_reg[rd] = c.int_reg[rt]]

(* Trap if... *)
Trap(c, condition) == IF condition THEN execute_exception(c, CalledTrap, <<>>) ELSE c
GeI32(a, b) == ~LtI32(a, b)
GeU32(a, b) == ~LtU32(a, b)

teq(c, rs, rt) == Trap(c, c.int_reg[rs] = c.int_reg[rt])
teqi(c, rs, imm) == Trap(c, c.int_reg[rs] = SignExtend16(imm))
tne(c, rs, rt) == Trap(c, c.int_reg[rs] # c.int_reg[rt])
tnei(c, rs, imm) == Trap(c, c.int_reg[rs] # SignExtend16(imm))
tge(c, rs, rt) == Trap(c, GeI32(c.int_reg[rs], c.int_reg[rt]))
tgeu(c, rs, rt) == Trap(c, GeU32(c.int_reg[rs], c.int_reg[rt]))
\* the source compares with != here
tgei(c, rs, imm) == Trap(c, c.int_reg[rs] # SignExtend16(imm))
tgeiu(c, rs, imm) == Trap(c, GeU32(c.int_reg[rs], SignExtend16(imm)))
tlt(c, rs, rt) == Trap(c, LtI32(c.int_reg[rs], c.int_reg[rt]))
tltu(c, rs, rt) == Trap(c, LtU32(c.int_reg[rs], c.int_reg[rt]))
tlti(c, rs, imm) == Trap(c, LtI32(c.int_reg[rs], SignExtend16(imm)))
tltiu(c, rs, imm) == Trap(c, LtU32(c.int_reg[rs], SignExtend16(imm)))

\* rfe clearing the old field too: status &= !0b111111
RfeStatus_ClearsOld(status) ==
    W(status[1], (status[2] - (status[2] % 64)) + ((status[2] \div 4) % 16))

\* old_previous = (status & 0b111100) >> 2; status &= !0b1111; status |= old_previous
RfeStatus(status) ==
    W(status[1], (status[2] - (status[2] % 16)) + ((status[2] \div 4) % 16))

\* rfe without its test of the mode
rfe_Unchecked(c) == [c EXCEPT !.cp0_reg[StatusReg] = RfeStatus(@)]

rfe(c) ==
    IF ~is_kernel_mode(c) THEN Panic(c, BadPrivilegeMsg)
    ELSE [c EXCEPT !.cp0_reg[StatusReg] = RfeStatus(@)]

\* eret without `self.pc = self.cp0_reg[14]`
eret_KeepsPc(c) == rfe(c)

eret(c) ==
    LET r == rfe(c)
    IN  IF r.fault # NoFault THEN r ELSE [r EXCEPT !.pc = r.cp0_reg[EpcReg]]

(* impl CPU, FP coprocessor 1: the moves of bit patterns.                  *)

mfc1(c, rt, fs) == write_to_reg(c, rt, c.cp1_reg[fs])
mtc1(c, rt, fs) == [c EXCEPT !.cp1_reg[fs] = c.int_reg[rt]]

lwc1(c, ft, base, offset) ==
    IF EffectiveAddressI32Overflows(c, base, offset) THEN Panic(c, AddOverflowMsg)
    ELSE [c EXCEPT !.memory_buffer =
            MemoryBuffer(EffectiveAddress(c, base, offset), Zero32, 4, FALSE, ft + 32,
                         FALSE, <<>>)]

swc1(c, ft, base, offset) ==
    IF EffectiveAddressI32Overflows(c, base, offset) THEN Panic(c, AddOverflowMsg)
    ELSE [c EXCEPT !.memory_buffer =
            MemoryBuffer(EffectiveAddress(c, base, offset), c.cp1_reg[ft], 4, TRUE, 0,
                         FALSE, <<>>)]

\* The registers of coprocessor 1 hold the bits of an f32, as write_back, mfc1
\* and mtc1 transmute them; a double is <<upper word, lower word>> of the
\* registers reg_num + 1 and reg_num.  The registers all hold +0.0 whenever an
\* instruction is decoded, because every instruction that writes one ends the
\* run in decode_int_instruction.  The arithmetic is therefore exact on +0.0,
\* and the result of any other case is left undetermined.
FpNotEvenMsg == "FP register not even"
SignBit == W(Half \div 2, 0)
\* the two formats: their +0.0, and the place of a result that the model does
\* not determine, which is no bit pattern
SingleBits == [zero |-> Zero32, undetermined |-> <<-1, -1>>]
DoubleBits == [zero |-> <<Zero32, Zero32>>, undetermined |-> <<<<-1, -1>>, <<-1, -1>>>>]

\* the result in the format to of the IEEE 754 operation op on operands of the
\* format from: it is zero when every operand is +0.0, but for 0.0 / 0.0, a
\* NaN whose sign is the host's
FloatResult(op, operands, from, to) ==
    IF op # "div" /\ \A i \in DOMAIN operands : operands[i] = from.zero THEN to.zero
    ELSE to.undetermined

\* f32 comparisons on the bits: a NaN is unordered, -0.0 equals +0.0, and the
\* others are ordered by sign and magnitude; digits are the bits below the
\* sign, most significant first
SingleDigits(a) == <<a[1] % (Half \div 2), a[2]>>
DoubleDigits(d) == <<d[1][1] % (Half \div 2), d[1][2], d[2][1], d[2][2]>>
RECURSIVE DigitsLess(_, _)
DigitsLess(x, y) ==
    /\ x # <<>>
    /\ \/ Head(x) < Head(y)
       \/ Head(x) = Head(y) /\ DigitsLess(Tail(x), Tail(y))
IsZeroDigits(x) == \A i \in DOMAIN x : x[i] = 0
\* above the digits of the infinity: exponent of ones and a fraction
IsNaNDigits(x) ==
    DigitsLess(IF Len(x) = 2 THEN <<32640, 0>> ELSE <<32752, 0, 0, 0>>, x)
FloatEqual(negative1, x, negative2, y) ==
    /\ ~IsNaNDigits(x) /\ ~IsNaNDigits(y)
    /\ \/ IsZeroDigits(x) /\ IsZeroDigits(y)
       \/ negative1 = negative2 /\ x = y
FloatLess(negative1, x, negative2, y) ==
    /\ ~IsNaNDigits(x) /\ ~IsNaNDigits(y)
    /\ ~(IsZeroDigits(x) /\ IsZeroDigits(y))
    /\ \/ negative1 /\ ~negative2
       \/ ~negative1 /\ ~negative2 /\ DigitsLess(x, y)
       \/ negative1 /\ negative2 /\ DigitsLess(y, x)
SingleCompare(op, a, b) ==
    LET equal == FloatEqual(Neg32(a), SingleDigits(a), Neg32(b), SingleDigits(b))
        less == FloatLess(Neg32(a), SingleDigits(a), Neg32(b), SingleDigits(b))
    IN  CASE op = "eq" -> equal [] op = "lt" -> less [] op = "le" -> less \/ equal
DoubleCompare(op, a, b) ==
    LET equal == FloatEqual(Neg32(a[1]), DoubleDigits(a), Neg32(b[1]), DoubleDigits(b))
        less == FloatLess(Neg32(a[1]), DoubleDigits(a), Neg32(b[1]), DoubleDigits(b))
    IN  CASE op = "eq" -> equal [] op = "lt" -> less [] op = "le" -> less \/ equal

get_double_precision(c, reg_num) == <<c.cp1_reg[reg_num + 1], c.cp1_reg[reg_num]>>

write_to_double_register(c, reg_num, data) ==
    IF reg_num % 2 = 1 THEN Panic(c, FpNotEvenMsg)
    ELSE [c EXCEPT !.cp1_reg[reg_num] = data[2], !.cp1_reg[reg_num + 1] = data[1]]

\* the operations by shape: the operands are read first, a double from an even
\* register or else a panic, and then the result is written
SingleFromSingle(c, fd, fs, op) ==
    [c EXCEPT !.cp1_reg[fd] = FloatResult(op, <<c.cp1_reg[fs]>>, SingleBits, SingleBits)]
SingleFromSingles(c, fd, fs, ft, op) ==
    [c EXCEPT !.cp1_reg[fd] =
        FloatResult(op, <<c.cp1_reg[fs], c.cp1_reg[ft]>>, SingleBits, SingleBits)]
SingleFromDouble(c, fd, fs, op) ==
    IF fs % 2 = 1 THEN Panic(c, FpNotEvenMsg)
    ELSE [c EXCEPT !.cp1_reg[fd] =
            FloatResult(op, <<get_double_precision(c, fs)>>, DoubleBits, SingleBits)]
DoubleFromSingle(c, fd, fs, op) ==
    write_to_double_register(c, fd, FloatResult(op, <<c.cp1_reg[fs]>>, SingleBits, DoubleBits))
DoubleFromDouble(c, fd, fs, op) ==
    IF fs % 2 = 1 THEN Panic(c, FpNotEvenMsg)
    ELSE write_to_double_register(c, fd,
            FloatResult(op, <<get_double_precision(c, fs)>>, DoubleBits, DoubleBits))
DoubleFromDoubles(c, fd, fs, ft, op) ==
    IF fs % 2 = 1 \/ ft % 2 = 1 THEN Panic(c, FpNotEvenMsg)
    ELSE write_to_double_register(c, fd,
            FloatResult(op, <<get_double_precision(c, fs), get_double_precision(c, ft)>>,
                        DoubleBits, DoubleBits))

\* abs and neg clear and flip the sign bit
abs_d(c, fd, fs) ==
    IF fs % 2 = 1 THEN Panic(c, FpNotEvenMsg)
    ELSE LET op1 == get_double_precision(c, fs)
         IN  write_to_double_register(c, fd, <<And32(op1[1], Not32(SignBit)), op1[2]>>)
abs_s(c, fd, fs) == [c EXCEPT !.cp1_reg[fd] = And32(c.cp1_reg[fs], Not32(SignBit))]
neg_d(c, fd, fs) ==
    IF fs % 2 = 1 THEN Panic(c, FpNotEvenMsg)
    ELSE LET op1 == get_double_precision(c, fs)
         IN  write_to_double_register(c, fd, <<Xor32(op1[1], SignBit), op1[2]>>)
neg_s(c, fd, fs) == [c EXCEPT !.cp1_reg[fd] = Xor32(c.cp1_reg[fs], SignBit)]

add_d(c, fd, fs, ft) == DoubleFromDoubles(c, fd, fs, ft, "add")
add_s(c, fd, fs, ft) == SingleFromSingles(c, fd, fs, ft, "add")
sub_d(c, fd, fs, ft) == DoubleFromDoubles(c, fd, fs, ft, "sub")
sub_s(c, fd, fs, ft) == SingleFromSingles(c, fd, fs, ft, "sub")
mul_d(c, fd, fs, ft) == DoubleFromDoubles(c, fd, fs, ft, "mul")
mul_s(c, fd, fs, ft) == SingleFromSingles(c, fd, fs, ft, "mul")
div_d(c, fd, fs, ft) == DoubleFromDoubles(c, fd, fs, ft, "div")
div_s(c, fd, fs, ft) == SingleFromSingles(c, fd, fs, ft, "div")
sqrt_d(c, fd, fs) == DoubleFromDouble(c, fd, fs, "sqrt")
sqrt_s(c, fd, fs) == SingleFromSingle(c, fd, fs, "sqrt")

\* the conversions to a word write the bits of the i32 to one register;
\* floor_w_d and floor_w_s call ceil()
ceil_w_d(c, fd, fs) == SingleFromDouble(c, fd, fs, "ceil as i32")
ceil_w_s(c, fd, fs) == SingleFromSingle(c, fd, fs, "ceil as i32")
floor_w_d(c, fd, fs) == SingleFromDouble(c, fd, fs, "ceil as i32")
floor_w_s(c, fd, fs) == SingleFromSingle(c, fd, fs, "ceil as i32")
round_w_d(c, fd, fs) == SingleFromDouble(c, fd, fs, "round as i32")
round_w_s(c, fd, fs) == SingleFromSingle(c, fd, fs, "round as i32")
trunc_d(c, fd, fs) == SingleFromDouble(c, fd, fs, "trunc as i32")
trunc_s(c, fd, fs) == SingleFromSingle(c, fd, fs, "trunc as i32")
cvt_w_d(c, fd, fs) == SingleFromDouble(c, fd, fs, "as i32")
cvt_w_s(c, fd, fs) == SingleFromSingle(c, fd, fs, "as i32")
\* cvt_d_w reads the 64 bits of the double fs as an i64, cvt_s_w the 32 bits
\* of fs as an i32
cvt_d_s(c, fd, fs) == DoubleFromSingle(c, fd, fs, "as f64")
cvt_d_w(c, fd, fs) == DoubleFromDouble(c, fd, fs, "i64 as f64")
cvt_s_d(c, fd, fs) == SingleFromDouble(c, fd, fs, "as f32")
cvt_s_w(c, fd, fs) == SingleFromSingle(c, fd, fs, "i32 as f32")

\* the comparisons set the condition flag and never clear it
c_eq_d(c, cc_num, fs, ft) ==
    IF fs % 2 = 1 \/ ft % 2 = 1 THEN Panic(c, FpNotEvenMsg)
    ELSE IF DoubleCompare("eq", get_double_precision(c, fs), get_double_precision(c, ft))
    THEN [c EXCEPT !.cc[cc_num] = TRUE] ELSE c
c_eq_s(c, cc_num, fs, ft) ==
    IF SingleCompare("eq", c.cp1_reg[fs], c.cp1_reg[ft]) THEN [c EXCEPT !.cc[cc_num] = TRUE]
    ELSE c
c_le_d(c, cc_num, fs, ft) ==
    IF fs % 2 = 1 \/ ft % 2 = 1 THEN Panic(c, FpNotEvenMsg)
    ELSE IF DoubleCompare("le", get_double_precision(c, fs), get_double_precision(c, ft))
    THEN [c EXCEPT !.cc[cc_num] = TRUE] ELSE c
c_le_s(c, cc_num, fs, ft) ==
    IF SingleCompare("le", c.cp1_reg[fs], c.cp1_reg[ft]) THEN [c EXCEPT !.cc[cc_num] = TRUE]
    ELSE c
c_lt_d(c, cc_num, fs, ft) ==
    IF fs % 2 = 1 \/ ft % 2 = 1 THEN Panic(c, FpNotEvenMsg)
    ELSE IF DoubleCompare("lt", get_double_precision(c, fs), get_double_precision(c, ft))
    THEN [c EXCEPT !.cc[cc_num] = TRUE] ELSE c
c_lt_s(c, cc_num, fs, ft) ==
    IF SingleCompare("lt", c.cp1_reg[fs], c.cp1_reg[ft]) THEN [c EXCEPT !.cc[cc_num] = TRUE]
    ELSE c

mov_d(c, fd, fs) ==
    IF fs % 2 = 1 THEN Panic(c, FpNotEvenMsg)
    ELSE write_to_double_register(c, fd, get_double_precision(c, fs))
mov_s(c, fd, fs) == [c EXCEPT !.cp1_reg[fd] = c.cp1_reg[fs]]
movf_d(c, fd, fs, cc_num) == IF c.cc[cc_num] = FALSE THEN mov_d(c, fd, fs) ELSE c
movf_s(c, fd, fs, cc_num) == IF c.cc[cc_num] = FALSE THEN mov_s(c, fd, fs) ELSE c
movt_d(c, fd, fs, cc_num) == IF c.cc[cc_num] = TRUE THEN mov_d(c, fd, fs) ELSE c
movt_s(c, fd, fs, cc_num) == IF c.cc[cc_num] = TRUE THEN mov_s(c, fd, fs) ELSE c
\* movn and movz test the register rt of coprocessor 0
movn_d(c, fd, fs, rt) == IF c.cp0_reg[rt] # Zero32 THEN mov_d(c, fd, fs) ELSE c
movn_s(c, fd, fs, rt) == IF c.cp0_reg[rt] # Zero32 THEN mov_s(c, fd, fs) ELSE c
movz_d(c, fd, fs, rt) == IF c.cp0_reg[rt] = Zero32 THEN mov_d(c, fd, fs) ELSE c
movz_s(c, fd, fs, rt) == IF c.cp0_reg[rt] = Zero32 THEN mov_s(c, fd, fs) ELSE c

-----------------------------------------------------------------------------
(* The decoders.                                                           *)

\* the fields of an instruction word
Opcode(i) == i[1] \div 2 ^ 10                    \* instruction >> 26
Rs(i) == (i[1] \div 32) % 32                     \* (instruction >> 21) & 0b11111
Rt(i) == i[1] % 32                               \* (instruction >> 16) & 0b11111
Rd(i) == i[2] \div 2 ^ 11                        \* (instruction >> 11) & 0b11111
Shamt(i) == (i[2] \div 64) % 32                  \* (instruction >> 6) & 0b11111
Funct(i) == i[2] % 64                            \* instruction & 0b111111
Imm(i) == i[2]                                   \* (instruction & 0xFFFF) as u16
Address26(i) == (i[1] % 2 ^ 10) * Half + i[2]    \* instruction & 0x3FFFFFF

RFE == W(16 * 2 ^ 10 + 2 ^ 9, 16)         \* 0b010000_1_0000000000000000000_010000
ERET == W(16 * 2 ^ 10 + 2 ^ 9, 18)        \* 0b010000_1_0000000000000000000_010010

BadInstructionMsg == "Bad instruction"

decode_cp0(c, instruction) ==
    IF c.fault # NoFault THEN c
    ELSE IF Opcode(instruction) = 16 /\ Rs(instruction) = 0 /\ Funct(instruction) = 0
    THEN mfc0(c, Rt(instruction), Rd(instruction))
    ELSE IF Opcode(instruction) = 16 /\ Rs(instruction) = 4 /\ Funct(instruction) = 0
    THEN mtc0(c, Rt(instruction), Rd(instruction))
    ELSE c

\* decode_cp1: its five matches in the order of the source; a word may match
\* in more than one of them.
decode_cp1(c, instruction) ==
    LET opcode == Opcode(instruction)
        opcode2 == Rs(instruction)
        ft == Rt(instruction)
        early_cc == Rt(instruction) \div 4              \* (instruction >> 18) & 0b111
        after_early_cc == Rt(instruction) % 4           \* (instruction >> 16) & 0b11
        fs == Rd(instruction)
        fd == Shamt(instruction)
        late_cc == Shamt(instruction) \div 4            \* (instruction >> 8) & 0b111
        after_late_cc == Shamt(instruction) % 4         \* (instruction >> 6) & 0b11
        last == Funct(instruction)
        offset == Imm(instruction)
        double == opcode2 = 17
        single == opcode2 = 16
        c1 == IF opcode = 57 THEN swc1(c, ft, opcode2, offset)
              ELSE IF opcode = 49 THEN lwc1(c, ft, opcode2, offset)
              ELSE c
        \* the third match: (opcode, opcode2, ft, last)
        arithmetic ==
            CASE opcode2 = 1 /\ ft = 0 /\ last = 5 -> abs_d(c1, fd, fs)
              [] opcode2 = 0 /\ ft = 0 /\ last = 5 -> abs_s(c1, fd, fs)
              [] double /\ last = 0 -> add_d(c1, fd, fs, ft)
              [] single /\ last = 0 -> add_s(c1, fd, fs, ft)
              [] double /\ ft = 0 /\ last = 14 -> ceil_w_d(c1, fd, fs)
              [] single /\ ft = 0 /\ last = 14 -> ceil_w_s(c1, fd, fs)
              [] single /\ ft = 0 /\ last = 33 -> cvt_d_s(c1, fd, fs)
              [] opcode2 = 20 /\ ft = 0 /\ last = 33 -> cvt_d_w(c1, fd, fs)
              [] double /\ ft = 0 /\ last = 32 -> cvt_s_d(c1, fd, fs)
              [] opcode2 = 20 /\ ft = 0 /\ last = 32 -> cvt_s_w(c1, fd, fs)
              [] double /\ ft = 0 /\ last = 36 -> cvt_w_d(c1, fd, fs)
              [] single /\ ft = 0 /\ last = 36 -> cvt_w_s(c1, fd, fs)
              [] double /\ last = 3 -> div_d(c1, fd, fs, ft)
              [] single /\ last = 3 -> div_s(c1, fd, fs, ft)
              [] double /\ ft = 0 /\ last = 15 -> floor_w_d(c1, fd, fs)
              [] single /\ ft = 0 /\ last = 15 -> floor_w_s(c1, fd, fs)
              [] double /\ ft = 0 /\ last = 6 -> mov_d(c1, fd, fs)
              [] single /\ ft = 0 /\ last = 6 -> mov_s(c1, fd, fs)
              [] double /\ last = 19 -> movn_d(c1, fd, fs, ft)
              [] single /\ last = 19 -> movn_s(c1, fd, fs, ft)
              [] double /\ last = 18 -> movz_d(c1, fd, fs, ft)
              [] single /\ last = 18 -> movz_s(c1, fd, fs, ft)
              [] double /\ last = 2 -> mul_d(c1, fd, fs, ft)
              [] single /\ last = 2 -> mul_s(c1, fd, fs, ft)
              [] double /\ ft = 0 /\ last = 7 -> neg_d(c1, fd, fs)
              [] single /\ ft = 0 /\ last = 7 -> neg_s(c1, fd, fs)
              [] double /\ ft = 0 /\ last = 12 -> round_w_d(c1, fd, fs)
              [] single /\ ft = 0 /\ last = 12 -> round_w_s(c1, fd, fs)
              [] double /\ ft = 0 /\ last = 4 -> sqrt_d(c1, fd, fs)
              [] single /\ ft = 0 /\ last = 4 -> sqrt_s(c1, fd, fs)
              [] double /\ last = 1 -> sub_d(c1, fd, fs, ft)
              [] single /\ last = 1 -> sub_s(c1, fd, fs, ft)
              [] double /\ ft = 0 /\ last = 13 -> trunc_d(c1, fd, fs)
              [] single /\ ft = 0 /\ last = 13 -> trunc_s(c1, fd, fs)
              [] OTHER -> c1
        \* the fourth match: (opcode, opcode2, after_late_cc, last)
        compare ==
            CASE double /\ after_late_cc = 0 /\ last = 50 -> c_eq_d(c1, late_cc, fs, ft)
              [] single /\ after_late_cc = 0 /\ last = 50 -> c_eq_s(c1, late_cc, fs, ft)
              [] double /\ after_late_cc = 0 /\ last = 62 -> c_le_d(c1, late_cc, fs, ft)
              [] single /\ after_late_cc = 0 /\ last = 62 -> c_le_s(c1, late_cc, fs, ft)
              [] double /\ after_late_cc = 0 /\ last = 60 -> c_lt_d(c1, late_cc, fs, ft)
              [] single /\ after_late_cc = 0 /\ last = 60 -> c_lt_s(c1, late_cc, fs, ft)
              [] OTHER -> c1
        \* the fifth match: (opcode, opcode2, early_cc, after_early_cc, last)
        move ==
            CASE double /\ after_early_cc = 0 /\ last = 17 -> movf_d(c1, fd, fs, early_cc)
              [] single /\ after_early_cc = 0 /\ last = 17 -> movf_s(c1, fd, fs, early_cc)
              [] double /\ after_early_cc = 1 /\ last = 17 -> movt_d(c1, fd, fs, early_cc)
              [] single /\ after_early_cc = 1 /\ last = 17 -> movt_s(c1, fd, fs, early_cc)
              [] OTHER -> c1
    IN  IF c.fault # NoFault THEN c
        ELSE IF c1.fault # NoFault \/ opcode # 17 THEN c1
        \* the values of last tell the four matches on opcode 0x11 apart, but for
        \* last = 0, which the second has with opcode2 0 and 4 and the third with
        \* 0x10 and 0x11: at most one arm of the four is taken
        ELSE IF opcode2 = 0 /\ fd = 0 /\ last = 0 THEN mfc1(c1, ft, fs)
        ELSE IF opcode2 = 4 /\ fd = 0 /\ last = 0 THEN mtc1(c1, ft, fs)
        ELSE IF last \in {50, 60, 62} THEN compare
        ELSE IF last = 17 THEN move
        ELSE arithmetic

decode_trap_instruction(c, instruction) ==
    LET opcode == Opcode(instruction)
        rs == Rs(instruction)
        rt == Rt(instruction)
        imm == Imm(instruction)
    IN  IF c.fault # NoFault THEN c
        ELSE CASE opcode = 0 /\ imm = 52 -> teq(c, rs, rt)
               [] opcode = 1 /\ rt = 12 -> teqi(c, rs, imm)
               [] opcode = 0 /\ imm = 54 -> tne(c, rs, rt)
               [] opcode = 1 /\ rt = 14 -> tnei(c, rs, imm)
               [] opcode = 0 /\ imm = 48 -> tge(c, rs, rt)
               [] opcode = 0 /\ imm = 49 -> tgeu(c, rs, rt)
               [] opcode = 1 /\ rt = 8 -> tgei(c, rs, imm)
               [] opcode = 1 /\ rt = 9 -> tgeiu(c, rs, imm)
               [] opcode = 0 /\ imm = 50 -> tlt(c, rs, rt)
               [] opcode = 0 /\ imm = 51 -> tltu(c, rs, rt)
               [] opcode = 1 /\ rt = 10 -> tlti(c, rs, imm)
               [] opcode = 1 /\ rt = 11 -> tltiu(c, rs, imm)
               [] OTHER -> c

decode_int_instruction(c, instruction) ==
    LET opcode == Opcode(instruction)
        rs == Rs(instruction)
        rt == Rt(instruction)
        rd == Rd(instruction)
        shamt == Shamt(instruction)
        funct == Funct(instruction)
        imm == Imm(instruction)
        address == Address26(instruction)
    IN  IF c.fault # NoFault THEN c
        ELSE CASE opcode = 0 /\ funct = 0 -> sll(c, rd, rt, shamt)
               [] opcode = 0 /\ funct = 2 -> srl(c, rd, rt, shamt)
               [] opcode = 0 /\ funct = 3 -> sra(c, rd, rt, shamt)
               [] opcode = 0 /\ funct = 4 -> sllv(c, rd, rt, rs)
               [] opcode = 0 /\ funct = 6 -> srlv(c, rd, rt, rs)
               [] opcode = 0 /\ funct = 7 -> srav(c, rd, rt, rs)
               [] opcode = 0 /\ funct = 8 -> jr(c, rs)
               [] opcode = 0 /\ funct = 9 -> jalr(c, rd, rs)
               [] opcode = 0 /\ funct = 12 -> syscall(c)
               [] opcode = 0 /\ funct = 16 -> mfhi(c, rd)
               [] opcode = 0 /\ funct = 17 -> mthi(c, rs)
               [] opcode = 0 /\ funct = 18 -> mflo(c, rd)
               [] opcode = 0 /\ funct = 19 -> mtlo(c, rs)
               [] opcode = 0 /\ funct = 24 -> mult(c, rs, rt)
               [] opcode = 0 /\ funct = 25 -> multu(c, rs, rt)
               [] opcode = 0 /\ funct = 26 -> div(c, rs, rt)
               [] opcode = 0 /\ funct = 27 -> divu(c, rs, rt)
               [] opcode = 0 /\ funct = 32 -> add(c, rd, rs, rt)
               [] opcode = 0 /\ funct = 33 -> addu(c, rd, rs, rt)
               [] opcode = 0 /\ funct = 34 -> sub(c, rd, rs, rt)
               [] opcode = 0 /\ funct = 35 -> subu(c, rd, rs, rt)
               [] opcode = 0 /\ funct = 36 -> and(c, rd, rs, rt)
               [] opcode = 0 /\ funct = 37 -> or(c, rd, rs, rt)
               [] opcode = 0 /\ funct = 38 -> xor(c, rd, rs, rt)
               [] opcode = 0 /\ funct = 39 -> nor(c, rd, rs, rt)
               [] opcode = 0 /\ funct = 42 -> slt(c, rd, rs, rt)
               [] opcode = 0 /\ funct = 43 -> sltu(c, rd, rs, rt)
               [] opcode = 2 -> j(c, address)
               [] opcode = 3 -> jal(c, address)
               [] opcode = 4 -> beq(c, rs, rt, imm)
               [] opcode = 5 -> bne(c, rs, rt, imm)
               [] opcode = 6 -> blez(c, rs, imm)
               [] opcode = 7 -> bgtz(c, rs, imm)
               [] opcode = 8 -> addi(c, rt, rs, imm)
               [] opcode = 9 -> addiu(c, rt, rs, imm)
               [] opcode = 10 -> slti(c, rt, rs, imm)
               [] opcode = 11 -> sltiu(c, rt, rs, imm)
               [] opcode = 12 -> andi(c, rt, rs, imm)
               [] opcode = 13 -> ori(c, rt, rs, imm)
               [] opcode = 14 -> xori(c, rt, rs, imm)
               [] opcode = 15 -> lui(c, rt, imm)
               [] opcode = 32 -> lb(c, rt, rs, imm)
               [] opcode = 33 -> lh(c, rt, rs, imm)
               [] opcode = 34 -> lwl(c, rt, rs, imm)
               [] opcode = 35 -> lw(c, rt, rs, imm)
               [] opcode = 36 -> lbu(c, rt, rs, imm)
               [] opcode = 37 -> lhu(c, rt, rs, imm)
               [] opcode = 38 -> lwr(c, rt, rs, imm)
               [] opcode = 40 -> sb(c, rt, rs, imm)
               [] opcode = 41 -> sh(c, rt, rs, imm)
               [] opcode = 43 -> sw(c, rt, rs, imm)
               [] OTHER -> Panic(c, BadInstructionMsg)

decode_and_execute(c, instruction) ==
    IF instruction = RFE THEN rfe(c)
    ELSE IF instruction = ERET THEN eret(c)
    ELSE decode_int_instruction(
             decode_trap_instruction(
                 decode_cp1(decode_cp0(c, instruction), instruction),
                 instruction),
             instruction)

-----------------------------------------------------------------------------
(* The write back of a load.                                               *)

BadDataSizeMsg == "Bad data size"

\* partial_write_back shifts by `shift` bits, as the source does
partial_write_back(c) ==
    LET register_number == c.memory_buffer.write_back_register
        content == c.int_reg[register_number]
        from == c.memory_buffer.partial_write[1]
        to == c.memory_buffer.partial_write[2]
        data == c.memory_buffer.data
        all == W(Half - 1, Half - 1)
        left == LET shift == 3 - to
                    word_part == ShlN(data, shift)
                    mask == Not32(ShlN(all, shift))
                IN  Or32(And32(content, mask), word_part)
        right == LET shift == from
                     word_part == ShrN(data, shift)
                     mask == Not32(ShrN(all, shift))
                 IN  Or32(And32(content, mask), word_part)
    IN  write_to_reg(c, register_number, IF from = 0 THEN left ELSE right)

write_back(c) ==
    LET data == c.memory_buffer.data
        size == c.memory_buffer.data_size
        register == c.memory_buffer.write_back_register
        result == IF ~c.memory_buffer.sign_extended THEN data
                  ELSE IF size = 4 THEN data
                  ELSE IF size = 2 THEN SignExtend16(data[2])
                  ELSE SignExtend8(data[2] % Byte)
    IN  IF c.memory_buffer.partial_write # <<>> THEN
            \* int_reg[register_number] indexes out of bounds for an FP register
            IF register > 31 THEN Panic(c, "index out of bounds")
            ELSE partial_write_back(c)
        ELSE IF c.memory_buffer.sign_extended /\ size \notin {1, 2, 4}
        THEN Panic(c, BadDataSizeMsg)
        ELSE IF register \in 0..31 THEN write_to_reg(c, register, result)
        ELSE [c EXCEPT !.cp1_reg[register - 32] = data]

-----------------------------------------------------------------------------
(* CPU::tick.                                                              *)

\* the Fetch arm without `self.pc += 4`
FetchPhase_SamePc(c) ==
    [c EXCEPT !.memory_buffer = MemoryBuffer(c.pc, Zero32, 4, FALSE, 0, FALSE, <<>>),
              !.phase = "DecodeAndExecute"]

FetchPhase(c) ==
    LET requested == [c EXCEPT !.memory_buffer =
                        MemoryBuffer(c.pc, Zero32, 4, FALSE, 0, FALSE, <<>>)]
    IN  IF c.overflow_checks /\ CarryU32(c.pc, U32(4)) THEN Panic(requested, AddOverflowMsg)
        ELSE [requested EXCEPT !.pc = Add32(c.pc, U32(4)), !.phase = "DecodeAndExecute"]

DecodeAndExecutePhase(c, data) ==
    LET e == decode_and_execute(c, data)
    IN  IF e.fault # NoFault THEN e
        ELSE [e EXCEPT !.memory_buffer.data_size =
                            IF e.memory_buffer.write_back_register = 0 THEN 0 ELSE @,
                       !.phase = "WriteBack"]

\* WriteBackPhase returning early, before the phase advances, when nothing is pending
WriteBackPhase_EarlyReturn(c, data) ==
    LET w == write_back([c EXCEPT !.memory_buffer.data = data])
    IN  IF c.memory_buffer.data_size = 0 THEN c
        ELSE IF w.fault # NoFault THEN w
        ELSE [w EXCEPT !.memory_buffer.data_size = 0, !.phase = "InterruptCheck"]

\* the WriteBack arm without `self.memory_buffer.data_size = 0`
WriteBackPhase_KeepsBuffer(c, data) ==
    LET w == IF c.memory_buffer.data_size > 0
             THEN write_back([c EXCEPT !.memory_buffer.data = data])
             ELSE c
    IN  IF w.fault # NoFault THEN w ELSE [w EXCEPT !.phase = "InterruptCheck"]

WriteBackPhase(c, data) ==
    LET w == IF c.memory_buffer.data_size > 0
             THEN write_back([c EXCEPT !.memory_buffer.data = data])
             ELSE c
    IN  IF w.fault # NoFault THEN w
        ELSE [w EXCEPT !.memory_buffer.data_size = 0, !.phase = "InterruptCheck"]

InterruptCheckPhase(c, interrupt_requests) ==
    [handle_interrupts(set_interrupt_requests(c, interrupt_requests), interrupt_requests)
        EXCEPT !.phase = "Fetch"]

\* tick without its check of the memory violation
CheckMemoryViolation_Absent(c) == c

\* the check raising the exception without `self.memory_buffer.data_size = 0`
CheckMemoryViolation_KeepsRequest(c) ==
    LET address == c.memory_buffer.address
        kernel_memory_violation ==
            c.memory_buffer.data_size > 0 /\ Bit31(address) /\ ~is_kernel_mode(c)
    IN  IF kernel_memory_violation
        THEN execute_exception(c, IF c.memory_buffer.store THEN IllegalAddressStore
                                  ELSE IllegalAddressLoad, <<address>>)
        ELSE c

\* the end of tick: /* Check memory violation. */
CheckMemoryViolation(c) ==
    LET address == c.memory_buffer.address
        is_requesting_kernel_space == c.memory_buffer.data_size > 0 /\ Bit31(address)
        kernel_memory_violation == is_requesting_kernel_space /\ ~is_kernel_mode(c)
        exception_code == IF c.memory_buffer.store THEN IllegalAddressStore
                          ELSE IllegalAddressLoad
    IN  IF kernel_memory_violation
        THEN execute_exception([c EXCEPT !.memory_buffer.data_size = 0],
                               exception_code, <<address>>)
        ELSE c

\* tick that samples the interrupt requests in every phase
tick_SamplesAlways(c, data, interrupt_requests) ==
    LET start == [c EXCEPT !.raised = <<>>]
        stepped == CASE c.phase = "Fetch" -> FetchPhase(start)
                     [] c.phase = "DecodeAndExecute" -> DecodeAndExecutePhase(start, data)
                     [] c.phase = "WriteBack" -> WriteBackPhase(start, data)
                     [] c.phase = "InterruptCheck" -> [start EXCEPT !.phase = "Fetch"]
        sampled == handle_interrupts(set_interrupt_requests(stepped, interrupt_requests),
                                     interrupt_requests)
    IN  IF stepped.fault # NoFault THEN stepped ELSE CheckMemoryViolation(sampled)

\* tick(data, interrupt_requests); the MemoryBuffer it returns is the
\* memory_buffer of the result
tick(c, data, interrupt_requests) ==
    LET start == [c EXCEPT !.raised = <<>>]
        stepped == CASE c.phase = "Fetch" -> FetchPhase(start)
                     [] c.phase = "DecodeAndExecute" -> DecodeAndExecutePhase(start, data)
                     [] c.phase = "WriteBack" -> WriteBackPhase(start, data)
                     [] c.phase = "InterruptCheck" ->
                            InterruptCheckPhase(start, interrupt_requests)
    IN  IF stepped.fault # NoFault THEN stepped ELSE CheckMemoryViolation(stepped)

-----------------------------------------------------------------------------
(* Memory: a zeroed Vec<u8>, kept as the map of its non-zero bytes.        *)

RamSize == 32 * 2 ^ 20                      \* main: Computer::new(1024 * 1024 * 32, ..)
OutOfBoundsMsg == "index out of bounds"

\* data.len() as <<len div 2^16, len mod 2^16>>: of main, and of a Computer::new
\* whose memory_size covers the exception handler at 0x80000180
MainMemorySize == <<RamSize \div Half, RamSize % Half>>
LargeMemorySize == <<Half \div 2 + 1, 0>>

\* address as usize + n <= data.len() for a Memory::new(memory_size)
InBoundsIn(memory_size, address, n) ==
    LET end_high == address[1] + (address[2] + n) \div Half
        end_low == (address[2] + n) % Half
    IN  \/ end_high < memory_size[1]
        \/ end_high = memory_size[1] /\ end_low <= memory_size[2]

\* address as usize < data.len(), with n bytes from it
InBounds(address, n) == InBoundsIn(MainMemorySize, address, n)

\* address as usize, as the key of the byte map: an index from 2^31 on is kept as
\* index - 2^32, the indices of a word or halfword never straddle 2^31
Index(address) ==
    IF address[1] < Half \div 2 THEN address[1] * Half + address[2]
    ELSE (address[1] - Half) * Half + address[2]

ByteAt(m, a) == IF a \in DOMAIN m THEN m[a] ELSE 0
PutByte(m, a, b) ==
    IF b = 0 THEN [x \in DOMAIN m \ {a} |-> m[x]]
    ELSE [x \in DOMAIN m \cup {a} |-> IF x = a THEN b ELSE m[x]]

\* read_data of a Memory::new(memory_size): [fault, value]
read_data_in(memory_size, m, address, size) ==
    IF size \notin {1, 2, 4} THEN [fault |-> BadDataSizeMsg, value |-> Zero32]
    ELSE IF ~InBoundsIn(memory_size, address, size) THEN [fault |-> OutOfBoundsMsg, value |-> Zero32]
    ELSE LET a == Index(address)
         IN  [fault |-> NoFault,
              value |-> CASE size = 1 -> W(0, ByteAt(m, a))
                          [] size = 2 -> W(0, ByteAt(m, a) * Byte + ByteAt(m, a + 1))
                          [] size = 4 -> FromBeBytes(<<ByteAt(m, a), ByteAt(m, a + 1),
                                                       ByteAt(m, a + 2), ByteAt(m, a + 3)>>)]

\* read_data of the memory of main
read_data(m, address, size) == read_data_in(MainMemorySize, m, address, size)

\* write_data storing the least significant byte first
StoredBytes_LittleEndian(data, size) ==
    CASE size = 1 -> <<data[2] % Byte>>
      [] size = 2 -> <<data[2] % Byte, data[2] \div Byte>>
      [] size = 4 -> <<data[2] % Byte, data[2] \div Byte, data[1] % Byte, data[1] \div Byte>>

\* the bytes write_data stores, first address first
StoredBytes(data, size) ==
    CASE size = 1 -> <<data[2] % Byte>>
      [] size = 2 -> <<data[2] \div Byte, data[2] % Byte>>
      [] size = 4 -> BeBytes(data)

\* the bytes are stored one by one: those before the first index out of bounds
\* are written when the panic comes
RECURSIVE PutBytes(_, _, _, _, _)
PutBytes(memory_size, m, address, bytes, i) ==
    IF i > Len(bytes) \/ ~InBoundsIn(memory_size, address, i) THEN m
    ELSE PutBytes(memory_size, PutByte(m, Index(address) + i - 1, bytes[i]),
                  address, bytes, i + 1)

\* write_data of a Memory::new(memory_size): [fault, ram]
write_data_in(memory_size, m, address, data, size) ==
    IF size \notin {1, 2, 4} THEN [fault |-> BadDataSizeMsg, ram |-> m]
    ELSE [fault |-> IF InBoundsIn(memory_size, address, size) THEN NoFault
                    ELSE OutOfBoundsMsg,
          ram |-> PutBytes(memory_size, m, address, StoredBytes(data, size), 1)]

\* write_data of the memory of main
write_data(m, address, data, size) == write_data_in(MainMemorySize, m, address, data, size)

-----------------------------------------------------------------------------
(* Computer: the driver.                                                   *)

ProgramStart == 0                           \* main: program: 0..4
\* the loop instruction with its 1 four bits lower: 0x00800000, a sll $0, $0, 0
LoopInstruction_Shifted == W(128, 0)

LoopInstruction == W(2048, 0)               \* 0b0000_1000_0000_0000_0000_0000_0000_0000

\* the RAM Computer::new leaves
Computer_new_ram == write_data(<<>>, U32(ProgramStart), LoopInstruction, 4).ram

Access(op, address, size) == [op |-> op, address |-> address, size |-> size]

\* The driver between two calls of tick in cpu_step: the processor, the RAM, the
\* word it passes to the next tick (data), and as history the accesses to RAM
\* (bus), the instruction fetched, the calls of tick that returned (ticks) and the
\* exceptions they took (raised). A panic of the RAM ends the process too.
StepStart(memory_size, c, m) ==
    [memory_size |-> memory_size, cpu |-> c, ram |-> m, data |-> Zero32, bus |-> <<>>, instruction |-> <<>>,
     ticks |-> 0, raised |-> <<>>]

\* cpu_step after its first tick: // FETCH
AfterFetch(s, mem_request) ==
    LET fetch == read_data_in(s.memory_size, s.ram, mem_request.address, 4)
        bus1 == <<Access("read", mem_request.address, 4)>>
    IN  IF fetch.fault # NoFault
        THEN [s EXCEPT !.cpu = Panic(@, fetch.fault), !.bus = bus1]
        ELSE [s EXCEPT !.data = fetch.value, !.instruction = <<fetch.value>>,
                       !.bus = bus1]

\* cpu_step after its second tick: // check for memory request
AfterExecute(s, mem_request) ==
    LET size == mem_request.data_size
        addr == mem_request.address
        load == read_data_in(s.memory_size, s.ram, addr, size)
        store == write_data_in(s.memory_size, s.ram, addr, mem_request.data, size)
    IN  IF size = 0 THEN [s EXCEPT !.data = Zero32]
        ELSE IF ~mem_request.store
        THEN IF load.fault # NoFault
             THEN [s EXCEPT !.cpu = Panic(@, load.fault),
                            !.bus = Append(@, Access("read", addr, size))]
             ELSE [s EXCEPT !.data = load.value,
                            !.bus = Append(@, Access("read", addr, size))]
        ELSE [s EXCEPT !.cpu = IF store.fault # NoFault THEN Panic(@, store.fault) ELSE @,
                       !.ram = store.ram,
                       !.data = Zero32,
                       !.bus = Append(@, Access("write", addr, size))]

\* what cpu_step does with the buffer its n-th tick returned
AfterTick(s, n) ==
    CASE n = 1 -> AfterFetch(s, s.cpu.memory_buffer)
      [] n = 2 -> AfterExecute(s, s.cpu.memory_buffer)
      [] n = 3 -> [s EXCEPT !.data = Zero32]
      [] n = 4 -> s

\* the four calls of tick of cpu_step, from the n-th on
RECURSIVE StepTicks(_, _, _)
StepTicks(s, n, interrupt_requests) ==
    IF n > 4 \/ s.cpu.fault # NoFault THEN s
    ELSE CHOOSE out \in
            {IF t.fault # NoFault THEN [s EXCEPT !.cpu = t]
             ELSE StepTicks(AfterTick([s EXCEPT !.cpu = t, !.ticks = n,
                                                !.raised = @ \o t.raised], n),
                            n + 1, interrupt_requests) :
                t \in {tick(s.cpu, s.data, interrupt_requests)}} : TRUE

\* cpu_step(interrupt_requests) on the processor c and the RAM m of a
\* Computer::new(memory_size, ..)
cpu_step_in(memory_size, c, m, interrupt_requests) ==
    StepTicks(StepStart(memory_size, c, m), 1, interrupt_requests)

\* cpu_step(interrupt_requests) of the Computer of main
cpu_step(c, m, interrupt_requests) == cpu_step_in(MainMemorySize, c, m, interrupt_requests)

-----------------------------------------------------------------------------
(* The words and interrupt masks the specifications feed to the processor. *)

IType(opcode, rs, rt, imm) == W(opcode * 2 ^ 10 + rs * 32 + rt, imm)
RType(rs, rt, rd, shamt, funct) == W(rs * 32 + rt, rd * 2 ^ 11 + shamt * 64 + funct)
Minus(n) == Half - n                        \* the 16-bit immediate -n

SYSCALL == RType(0, 0, 0, 0, 12)
BREAK == RType(0, 0, 0, 0, 13)
TEQ_0_0 == RType(0, 0, 0, 0, 52)            \* teq $0, $0
ADD_2_1_1 == RType(1, 1, 2, 0, 32)          \* add $2, $1, $1
ADDI_2_1_1 == IType(8, 1, 2, 1)             \* addi $2, $1, 1
LW_1_LOW == IType(35, 0, 1, 256)            \* lw $1, 0x100($0)
LW_2_LOW == IType(35, 0, 2, 256)            \* lw $2, 0x100($0)
LW_2_HIGH == IType(35, 0, 2, Minus(4))      \* lw $2, -4($0): address 0xFFFFFFFC
LB_2_HIGH == IType(32, 0, 2, Minus(1))      \* lb $2, -1($0)
LBU_2_HIGH == IType(36, 0, 2, Minus(1))     \* lbu $2, -1($0)
LH_2_HIGH == IType(33, 0, 2, Minus(2))      \* lh $2, -2($0)
LHU_2_HIGH == IType(37, 0, 2, Minus(2))     \* lhu $2, -2($0)
LWL_2_HIGH == IType(34, 0, 2, Minus(3))     \* lwl $2, -3($0)
LWR_2_HIGH == IType(38, 0, 2, Minus(2))     \* lwr $2, -2($0)
LW_0_HIGH == IType(35, 0, 0, Minus(4))      \* lw $0, -4($0)
SW_1_LOW == IType(43, 0, 1, 256)            \* sw $1, 0x100($0)
SH_1_LOW == IType(41, 0, 1, 258)            \* sh $1, 0x102($0)
SB_1_LOW == IType(40, 0, 1, 259)            \* sb $1, 0x103($0)
SW_1_HIGH == IType(43, 0, 1, Minus(4))      \* sw $1, -4($0)
SH_1_HIGH == IType(41, 0, 1, Minus(2))      \* sh $1, -2($0)
SB_1_HIGH == IType(40, 0, 1, Minus(1))      \* sb $1, -1($0)
SWC1_1_HIGH == IType(57, 0, 1, Minus(4))    \* swc1 $f1, -4($0)
JR_1 == RType(1, 0, 0, 0, 8)                \* jr $1

\* data words: 0x11223344, 0x7FFFFFFF, 0x80000180
DATA_MIXED == W(4386, 13124)
DATA_MAXINT == W(32767, 65535)
DATA_KERNEL == W(32768, 384)
DATA_MIN == W(32768, 0)

\* the inbound words of Spec: every word may arrive in every phase
Words ==
    {SYSCALL, ERET, RFE, ADDI_2_1_1, LW_1_LOW, LW_2_HIGH, SW_1_HIGH, TEQ_0_0,
     DATA_MAXINT}

\* the interrupt_requests of a tick: none, line 0
InterruptRequests == {0, 1}

\* the inbound words of SpecLoad: the ways into user mode, every load of the
\* integer unit to the kernel segment, and a word of data
LoadWords ==
    {SYSCALL, ERET, RFE, LB_2_HIGH, LBU_2_HIGH, LH_2_HIGH, LHU_2_HIGH, LW_2_HIGH,
     LWL_2_HIGH, LWR_2_HIGH, LW_0_HIGH, DATA_MIXED}

\* the inbound words of SpecRegs: instructions that name register 0 as their
\* destination, the jumps, a syscall (the way to a PC in the kernel segment) and a
\* word of data
ORI_0_0_ALL == IType(13, 0, 0, Half - 1)    \* ori $0, $0, 0xFFFF
LUI_0_1 == IType(15, 0, 0, 1)               \* lui $0, 1
ADDIU_0_0_1 == IType(9, 0, 0, 1)            \* addiu $0, $0, 1
LWL_0_LOW == IType(34, 0, 0, 257)           \* lwl $0, 0x101($0)
JALR_0_0 == RType(0, 0, 0, 0, 9)            \* jalr $0, $0
MFC0_0_STATUS == W(16 * 2 ^ 10, 12 * 2 ^ 11)    \* mfc0 $0, $12
MFC1_0_0 == W(17 * 2 ^ 10, 0)               \* mfc1 $0, $f0
J_LOW == W(2 * 2 ^ 10, 64)                  \* j 0x40: to 0x100 in the segment of PC
JAL_HIGH == W(3 * 2 ^ 10 + 1023, Half - 1)  \* jal 0x3FFFFFF
RegsWords ==
    {ORI_0_0_ALL, LUI_0_1, ADDIU_0_0_1, LWL_0_LOW, LW_0_HIGH, JALR_0_0, MFC0_0_STATUS,
     MFC1_0_0, J_LOW, JAL_HIGH, SYSCALL, DATA_MIXED}

\* the instructions of the program images of SpecDriver, and their data
LW_1_DATA == IType(35, 0, 1, 512)           \* lw $1, 0x200($0)
DataAddress == W(0, 512)
DriverWords == {LW_1_DATA, SW_1_LOW, SH_1_LOW, LW_2_LOW, SYSCALL}
DataWords == {DATA_MIXED, DATA_MAXINT, DATA_KERNEL, DATA_MIN}
Programs == [1..ProgramLen -> DriverWords]

RECURSIVE LoadProgram(_, _, _)
LoadProgram(m, program, i) ==
    IF i > Len(program) THEN m
    ELSE LoadProgram(write_data(m, U32(ProgramStart + 4 * (i - 1)), program[i], 4).ram,
                     program, i + 1)

\* the RAM of Computer::new with a program at the program start and a word of data
Image(program, w) ==
    write_data(LoadProgram(Computer_new_ram, program, 1), DataAddress, w, 4).ram

-----------------------------------------------------------------------------
(* The state machine.                                                      *)

\* the state after CPU::new, in either build profile
InitCpu ==
    /\ overflow_checks \in BOOLEAN
    /\ int_reg = CPU_new(overflow_checks).int_reg
    /\ cp0_reg = CPU_new(overflow_checks).cp0_reg
    /\ hi = Zero32
    /\ lo = Zero32
    /\ cp1_reg = CPU_new(overflow_checks).cp1_reg
    /\ cc = CPU_new(overflow_checks).cc
    /\ pc = Zero32
    /\ memory_buffer = EmptyBuffer
    /\ phase = "Fetch"
    /\ fault = NoFault
    /\ raised = <<>>
    /\ last_exception = <<>>
    /\ decoded = Zero32
    /\ ticks = 0
    /\ executed = <<>>
    /\ bus = <<>>

Init ==
    /\ InitCpu
    /\ ram = Computer_new_ram

\* the program images of SpecCases: a sub-word load of the data, an add, sub or
\* addi on the data loaded into $1, or a beq
LB_2_DATA == IType(32, 0, 2, 512)           \* lb $2, 0x200($0)
LH_2_DATA == IType(33, 0, 2, 512)           \* lh $2, 0x200($0)
LBU_2_DATA == IType(36, 0, 2, 512)          \* lbu $2, 0x200($0)
LHU_2_DATA == IType(37, 0, 2, 512)          \* lhu $2, 0x200($0)
SUB_2_0_1 == RType(0, 1, 2, 0, 34)          \* sub $2, $0, $1
SUB_2_1_1 == RType(1, 1, 2, 0, 34)          \* sub $2, $1, $1
ADDI_2_1_M1 == IType(8, 1, 2, Minus(1))     \* addi $2, $1, -1
BEQ_0_0(imm) == IType(4, 0, 0, imm)         \* beq $0, $0, imm
BEQ_1_0_8 == IType(4, 1, 0, 8)              \* beq $1, $0, 8
SubwordLoads == {LB_2_DATA, LH_2_DATA, LBU_2_DATA, LHU_2_DATA}
AluWords == {ADD_2_1_1, SUB_2_0_1, SUB_2_1_1, ADDI_2_1_1, ADDI_2_1_M1}
BranchWords ==
    {BEQ_0_0(imm) : imm \in {1, Minus(1), 8191, 8192, Minus(8192), Minus(8193),
                             Half \div 2 - 1, Half \div 2}}
CasePrograms ==
    {<<x>> : x \in SubwordLoads \cup BranchWords}
        \cup {<<LW_1_DATA, x>> : x \in AluWords \cup {BEQ_1_0_8}}

InitCases ==
    /\ InitCpu
    /\ \E program \in CasePrograms, w \in DataWords : ram = Image(program, w)

\* the state after Computer::new when RAM holds the default loop or a program image
InitDriver ==
    /\ InitCpu
    /\ \/ ram = Computer_new_ram
       \/ \E program \in Programs, w \in DataWords : ram = Image(program, w)

SetCpu(c) ==
    /\ int_reg' = c.int_reg
    /\ cp0_reg' = c.cp0_reg
    /\ hi' = c.hi
    /\ lo' = c.lo
    /\ cp1_reg' = c.cp1_reg
    /\ cc' = c.cc
    /\ pc' = c.pc
    /\ memory_buffer' = c.memory_buffer
    /\ phase' = c.phase
    /\ fault' = c.fault
    /\ raised' = c.raised
    /\ last_exception' = IF c.raised # <<>> THEN c.raised[Len(c.raised)]
                         ELSE last_exception
    /\ overflow_checks' = overflow_checks

\* one call of CPU::tick by a driver that is free in what it passes
Tick(data, interrupt_requests) ==
    /\ fault = NoFault
    /\ ticks < MaxTicks
    /\ SetCpu(tick(CpuRec, data, interrupt_requests))
    /\ decoded' = IF phase = "DecodeAndExecute" THEN data ELSE decoded
    /\ ticks' = ticks + 1
    /\ UNCHANGED <<ram, executed, bus>>

Next == \E data \in Words, interrupt_requests \in InterruptRequests :
            Tick(data, interrupt_requests)

Spec == Init /\ [][Next]_vars

\* the ticks of a driver that raises no interrupt request, as Computer::run
NextLoad == \E data \in LoadWords : Tick(data, 0)

SpecLoad == Init /\ [][NextLoad]_vars

NextRegs == \E data \in RegsWords : Tick(data, 0)

SpecRegs == Init /\ [][NextRegs]_vars

\* a driver that passes, as cpu_step does, an instruction to the DecodeAndExecute
\* tick, a word of data to the WriteBack tick and 0 to the other two, and raises
\* no interrupt request
DriverTick(instructions, operands) ==
    \E data \in (CASE phase = "DecodeAndExecute" -> instructions
                   [] phase = "WriteBack" -> operands
                   [] OTHER -> {Zero32}) : Tick(data, 0)

\* the unaligned loads to $2 at 0x100 + k, after a load that fills $2
LWL_2(k) == IType(34, 0, 2, 256 + k)        \* lwl $2, 0x100 + k($0)
LWR_2(k) == IType(38, 0, 2, 256 + k)        \* lwr $2, 0x100 + k($0)
DATA_MARK == W(43707, 52445)                \* 0xAABBCCDD
UnalignedWords == {LW_2_LOW} \cup {LWL_2(k) : k \in 0 .. 3} \cup {LWR_2(k) : k \in 0 .. 3}

NextUnaligned == DriverTick(UnalignedWords, {DATA_MIXED, DATA_MARK})

SpecUnaligned == Init /\ [][NextUnaligned]_vars

\* multiplications, signed comparisons and branches on sign of the operands that
\* two loads have put in $1 and $2
MULT_1_2 == RType(1, 2, 0, 0, 24)           \* mult $1, $2
MULTU_1_2 == RType(1, 2, 0, 0, 25)          \* multu $1, $2
SLT_3_1_2 == RType(1, 2, 3, 0, 42)          \* slt $3, $1, $2
SLTI_3_1(imm) == IType(10, 1, 3, imm)       \* slti $3, $1, imm
BLEZ_1 == IType(6, 1, 0, 2)                 \* blez $1, 2
BGTZ_1 == IType(7, 1, 0, 2)                 \* bgtz $1, 2
MinusOne32 == W(Half - 1, Half - 1)
AluOperands == {Zero32, One32, MinusOne32, DATA_MIN, DATA_MAXINT, DATA_MIXED}
AluInstructions ==
    {LW_1_LOW, LW_2_LOW, MULT_1_2, MULTU_1_2, SLT_3_1_2, SLTI_3_1(1), SLTI_3_1(Minus(1)),
     BLEZ_1, BGTZ_1}

NextAlu == DriverTick(AluInstructions, AluOperands)

SpecAlu == Init /\ [][NextAlu]_vars

\* the divisions of the operands that two loads have put in $1 and $2
DIV_1_2 == RType(1, 2, 0, 0, 26)            \* div $1, $2
DIVU_1_2 == RType(1, 2, 0, 0, 27)           \* divu $1, $2
DivOperands == {Zero32, One32, U32(7), MinusOne32, W(Half - 1, Half - 7), DATA_MIN}

NextDiv == DriverTick({LW_1_LOW, LW_2_LOW, DIV_1_2, DIVU_1_2}, DivOperands)

SpecDiv == Init /\ [][NextDiv]_vars

\* the additions and subtractions that can raise Overflow, on the operands that
\* two loads have put in $1 and $2, and syscall
ADD_3_1_2 == RType(1, 2, 3, 0, 32)          \* add $3, $1, $2
SUB_3_1_2 == RType(1, 2, 3, 0, 34)          \* sub $3, $1, $2
ADDI_3_1(imm) == IType(8, 1, 3, imm)        \* addi $3, $1, imm
OverflowWords == {ADD_3_1_2, SUB_3_1_2, ADDI_3_1(1), ADDI_3_1(Minus(1))}
OverflowOperands == {One32, MinusOne32, DATA_MAXINT, DATA_MIN}

NextOverflow == DriverTick({LW_1_LOW, LW_2_LOW, SYSCALL} \cup OverflowWords, OverflowOperands)

SpecOverflow == Init /\ [][NextOverflow]_vars

\* the compare-and-trap instructions on the operands that two loads have put in
\* $1 and $2: funct 48 .. 54 of opcode 0, and rt 8 .. 14 of opcode 1
TrapFuncts == {48, 49, 50, 51, 52, 54}
TrapImmediates == {8, 9, 10, 11, 12, 14}
TRAP_1_2(funct) == RType(1, 2, 0, 0, funct)         \* teq $1, $2 and the like
TRAPI_1(rt, imm) == IType(1, 1, rt, imm)            \* teqi $1, imm and the like
TrapWords ==
    {TRAP_1_2(funct) : funct \in TrapFuncts}
        \cup {TRAPI_1(rt, imm) : rt \in TrapImmediates, imm \in {1, Minus(1)}}
TrapOperands == {Zero32, One32, MinusOne32, DATA_MIN, DATA_MAXINT}

NextTraps == DriverTick({LW_1_LOW, LW_2_LOW} \cup TrapWords, TrapOperands)

SpecTraps == Init /\ [][NextTraps]_vars

\* syscall, break, and the moves from and to coprocessor 0, with a load to have
\* a value in $1 and eret to leave kernel mode after an exception
MFC0_2_STATUS == W(16 * 2 ^ 10 + 2, StatusReg * 2 ^ 11)       \* mfc0 $2, $12
MTC0_1_EPC == W(16 * 2 ^ 10 + 4 * 32 + 1, EpcReg * 2 ^ 11)    \* mtc0 $1, $14
SystemWords == {SYSCALL, BREAK, MFC0_2_STATUS, MTC0_1_EPC, LW_1_LOW, ERET, DATA_MAXINT}

NextSystem == \E data \in SystemWords : Tick(data, 0)

SpecSystem == Init /\ [][NextSystem]_vars

\* the words that need kernel mode, with syscall and a load from the kernel
\* segment to take exceptions, a load to have a value in $1, an addi and a word
\* of data; rfe and eret after an exception are the ways into user mode
MTC0_1_STATUS == W(16 * 2 ^ 10 + 4 * 32 + 1, StatusReg * 2 ^ 11)    \* mtc0 $1, $12
PrivilegedWords == {MFC0_2_STATUS, MTC0_1_EPC, MTC0_1_STATUS, RFE, ERET}
PrivilegeWords ==
    PrivilegedWords \cup {SYSCALL, LW_1_LOW, LW_2_HIGH, ADDI_2_1_1, DATA_MAXINT}

NextPrivilege == \E data \in PrivilegeWords, interrupt_requests \in InterruptRequests :
                    Tick(data, interrupt_requests)

SpecPrivilege == Init /\ [][NextPrivilege]_vars

\* the words of coprocessor 0 and 1 and the compare-and-trap words, each from
\* the reset state or after a load to $1
Cp1Word(opcode2, ft, fs, fd, last) == W(17 * 2 ^ 10 + opcode2 * 32 + ft, fs * 2 ^ 11 + fd * 64 + last)
SingleFormat == 16
DoubleFormat == 17
WordFormat == 20
Cp1Lasts == {0, 1, 2, 3, 4, 6, 7, 12, 13, 14, 15, 36}
Cp1Words ==
    {Cp1Word(format, 0, 2, 4, last) : format \in {SingleFormat, DoubleFormat}, last \in Cp1Lasts}
        \cup {Cp1Word(format, ft, 2, 4, last) :
                 format \in {SingleFormat, DoubleFormat}, ft \in {0, 1, 12}, last \in {17, 18, 19}}
        \cup {Cp1Word(format, 6, 2, 4, last) :
                 format \in {SingleFormat, DoubleFormat}, last \in {50, 60, 62}}
        \cup {Cp1Word(DoubleFormat, 0, 3, 4, 6), Cp1Word(DoubleFormat, 0, 2, 5, 6),
              Cp1Word(DoubleFormat, 7, 2, 4, 0), Cp1Word(1, 0, 2, 4, 5), Cp1Word(0, 0, 2, 4, 5),
              Cp1Word(WordFormat, 0, 2, 4, 32), Cp1Word(WordFormat, 0, 2, 4, 33),
              Cp1Word(DoubleFormat, 0, 2, 4, 32), Cp1Word(SingleFormat, 0, 2, 4, 33),
              Cp1Word(0, 1, 2, 0, 0), Cp1Word(4, 1, 2, 0, 0),
              IType(49, 0, 2, 256), IType(57, 0, 2, 256)}
\* words of opcode 0x11 that no match of decode_cp1 has an arm for
UnknownCp1Words == {Cp1Word(SingleFormat, 0, 2, 4, 32), Cp1Word(DoubleFormat, 0, 2, 4, 33)}
CoprocessorWords ==
    {LW_1_LOW, MFC0_2_STATUS, MTC0_1_EPC} \cup Cp1Words \cup UnknownCp1Words
        \cup {TRAP_1_2(funct) : funct \in TrapFuncts}
        \cup {TRAPI_1(rt, 1) : rt \in TrapImmediates}

NextCoprocessor == DriverTick(CoprocessorWords, {Zero32, One32})

SpecCoprocessor == Init /\ [][NextCoprocessor]_vars

\* one iteration of the loop of Computer::run, cpu_step(0), for a
\* Computer::new(memory_size, ..)
CpuStep(memory_size) ==
    /\ fault = NoFault
    /\ \E r \in {cpu_step_in(memory_size, CpuRec, ram, 0)} :
        /\ SetCpu([r.cpu EXCEPT !.raised = r.raised])
        /\ ram' = r.ram
        /\ bus' = r.bus
        /\ executed' = executed \o r.instruction
        /\ decoded' = IF r.instruction # <<>> THEN r.instruction[1] ELSE decoded
        /\ ticks' = ticks + r.ticks

RunIn(memory_size) ==
    /\ Len(executed) < MaxSteps
    /\ CpuStep(memory_size)

\* one iteration of the loop of Computer::run in main
Run == RunIn(MainMemorySize)

NextDriver == Run

SpecDriver == InitDriver /\ [][NextDriver]_vars

\* the memory alone: a Memory::new(RamSize) and calls of write_data at the start
\* and at the end of the RAM, the last addresses running over its end
MaxWrites == 2
MemoryAddresses ==
    {U32(0), U32(1), W(RamSize \div Half - 1, Half - 4),
     W(RamSize \div Half - 1, Half - 2), W(RamSize \div Half, 0)}
MemoryWords == {DATA_MIXED, DATA_KERNEL}
MemorySizes == {1, 2, 4}

InitMemory ==
    /\ InitCpu
    /\ ram = <<>>

WriteData(address, data, size) ==
    /\ fault = NoFault
    /\ Len(bus) < MaxWrites
    /\ LET w == write_data(ram, address, data, size)
       IN  /\ ram' = w.ram
           /\ fault' = w.fault
    /\ bus' = Append(bus, Access("write", address, size))
    /\ UNCHANGED <<int_reg, cp0_reg, hi, lo, cp1_reg, cc, pc, memory_buffer, phase,
                   overflow_checks, raised, last_exception, decoded, ticks, executed>>

NextMemory ==
    \E address \in MemoryAddresses, data \in MemoryWords, size \in MemorySizes :
        WriteData(address, data, size)
SpecMemory == InitMemory /\ [][NextMemory]_vars

SpecCases == InitCases /\ [][NextDriver]_vars

\* main as it is: Computer::new leaves the loop instruction at the program start,
\* and run() calls cpu_step(0) again and again; Video::display between two steps
\* only reads the RAM
MaxLoops == 64
RunLoop ==
    /\ Len(executed) < MaxLoops
    /\ CpuStep(MainMemorySize)

NextMain == RunLoop

SpecMain == Init /\ [][NextMain]_vars

\* a Computer::new(LargeMemorySize, ..) whose RAM holds two words of program at
\* the program start and two words of exception handler at 0x80000180
HandlerNext == Add32(EXCEPTION_HANDLER_ADDRESS, U32(4))
ProgramWords == {SYSCALL, BREAK, LW_2_HIGH}
HandlerWords == {RFE, ERET}
HandlerNextWords == {ADDI_2_1_1, SW_1_LOW, LoopInstruction}

HandlerImage(p0, p4, h0, h4) ==
    LET m0 == write_data_in(LargeMemorySize, <<>>, U32(ProgramStart), LoopInstruction, 4).ram
        m1 == write_data_in(LargeMemorySize, m0, U32(ProgramStart), p0, 4).ram
        m2 == write_data_in(LargeMemorySize, m1, U32(ProgramStart + 4), p4, 4).ram
        m3 == write_data_in(LargeMemorySize, m2, EXCEPTION_HANDLER_ADDRESS, h0, 4).ram
    IN  write_data_in(LargeMemorySize, m3, HandlerNext, h4, 4).ram

InitHandler ==
    /\ InitCpu
    /\ \E p0 \in ProgramWords, p4 \in {ADDI_2_1_1, SYSCALL}, h0 \in HandlerWords,
          h4 \in HandlerNextWords : ram = HandlerImage(p0, p4, h0, h4)

RunLarge == RunIn(LargeMemorySize)

NextHandler == RunLarge

SpecHandler == InitHandler /\ [][NextHandler]_vars

-----------------------------------------------------------------------------
(* Properties.                                                             *)

UserMode(cp0) == (cp0[StatusReg][2] \div 2) % 2 = 1
CauseCode(cp0) == (cp0[CauseReg][2] \div 4) % 32
ModeStack(cp0) == cp0[StatusReg][2] % 64          \* Status bits [5:0]

PhaseOfTick(n) ==
    CASE n % 4 = 0 -> "Fetch"
      [] n % 4 = 1 -> "DecodeAndExecute"
      [] n % 4 = 2 -> "WriteBack"
      [] n % 4 = 3 -> "InterruptCheck"

\* C1: as long as no tick has panicked, the phase before tick number 4N is Fetch,
\* before 4N+1 DecodeAndExecute, before 4N+2 WriteBack and before 4N+3
\* InterruptCheck: every tick, also one that raises an exception, makes exactly
\* one phase transition.
C1_PhaseCycle == fault = NoFault => phase = PhaseOfTick(ticks)

\* C1's case: the eighth tick, an InterruptCheck, raised an exception and the
\* phase is Fetch again.
C1_Witness ==
    /\ ticks = 8
    /\ fault = NoFault
    /\ raised # <<>>
    /\ phase = "Fetch"

\* the address a load or store word addresses: GPR[base] + sign-extended offset
StoreOpcodes == {40, 41, 43}
StoreSize(opcode) == CASE opcode = 40 -> 1 [] opcode = 41 -> 2 [] opcode = 43 -> 4
StoreData(value, opcode) ==
    CASE opcode = 40 -> W(0, value[2] % Byte)
      [] opcode = 41 -> W(0, value[2])
      [] opcode = 43 -> value
AddressOf(regs, instruction) ==
    Add32(regs[Rs(instruction)], SignExtend16(Imm(instruction)))

\* C2: a DecodeAndExecute tick that executes sb, sh or sw in kernel mode, or to an
\* address with bit 31 clear, returns the buffer of the store: store = true,
\* writeback_register = 0, data_size = 1, 2 or 4, address = GPR[base] + offset,
\* data = the low 8, 16 or 32 bits of GPR[rt].
C2_StoreReachesDriver ==
    [][(/\ phase = "DecodeAndExecute"
        /\ fault' = NoFault
        /\ Opcode(decoded') \in StoreOpcodes
        /\ (~UserMode(cp0_reg) \/ ~Bit31(AddressOf(int_reg, decoded'))))
       => (/\ memory_buffer'.store
           /\ memory_buffer'.write_back_register = 0
           /\ memory_buffer'.data_size = StoreSize(Opcode(decoded'))
           /\ memory_buffer'.address = AddressOf(int_reg, decoded')
           /\ memory_buffer'.data = StoreData(int_reg[Rt(decoded')], Opcode(decoded')))
      ]_vars

\* C3: through cpu_step, `sw $1, a($0)` followed by `lw $2, a($0)` leaves
\* GPR[2] = GPR[1] and the four RAM bytes at a holding that word in big-endian
\* order.
C3_StoreThenLoad ==
    \A n \in 2..Len(executed) :
        LET store == executed[n - 1]
            load == executed[n]
            a == W(0, Imm(store))
        IN  (/\ n = Len(executed)
             /\ fault = NoFault
             /\ Opcode(store) = 43 /\ Rs(store) = 0 /\ Rt(store) = 1
             /\ Opcode(load) = 35 /\ Rs(load) = 0 /\ Rt(load) = 2
             /\ Imm(load) = Imm(store) /\ Imm(store) < Half \div 2)
            => (/\ int_reg[2] = int_reg[1]
                /\ <<ByteAt(ram, Index(a)), ByteAt(ram, Index(a) + 1),
                     ByteAt(ram, Index(a) + 2), ByteAt(ram, Index(a) + 3)>>
                        = BeBytes(int_reg[1]))

\* C4: the buffer a tick returns never describes a pending transaction
\* (data_size > 0) to an address with bit 31 set while Status bit 1 says user mode.
C4_NoKernelTransactionInUserMode ==
    fault = NoFault =>
        ~(/\ memory_buffer.data_size > 0
          /\ Bit31(memory_buffer.address)
          /\ UserMode(cp0_reg))

\* C4's case: the last tick cancelled a transaction to a kernel address that was
\* asked for in user mode.
C4_Witness ==
    /\ fault = NoFault
    /\ raised # <<>>
    /\ raised[1].code = IllegalAddressLoad
    /\ UserMode(raised[1].pre.cp0_reg)
    /\ Bit31(memory_buffer.address)
    /\ memory_buffer.data_size = 0

\* C5: in user mode a store (sb, sh, sw, swc1) whose effective address has bit 31
\* set is cancelled and takes IllegalAddressStore: Cause[6:2] = 5, BadVaddr = the
\* effective address, PC = 0x80000180.
C5_UserStoreTakesException ==
    [][(/\ phase = "DecodeAndExecute"
        /\ fault = NoFault
        /\ fault' \in {NoFault, BadInstructionMsg}
        /\ Opcode(decoded') \in StoreOpcodes \cup {57}
        /\ UserMode(cp0_reg)
        /\ Bit31(AddressOf(int_reg, decoded')))
       => (/\ fault' = NoFault
           /\ memory_buffer'.data_size = 0
           /\ CauseCode(cp0_reg') = IllegalAddressStore
           /\ cp0_reg'[BadVaddrReg] = AddressOf(int_reg, decoded')
           /\ pc' = EXCEPTION_HANDLER_ADDRESS)
      ]_vars

LoadOpcodes == {32, 33, 34, 35, 36, 37, 38}
\* the address of the transaction a load asks for: lwl and lwr ask for the word
TransactionAddress(regs, instruction) ==
    IF Opcode(instruction) \in {34, 38} THEN WordAddress(AddressOf(regs, instruction))
    ELSE AddressOf(regs, instruction)

\* the address of the fetch or of the load of a tick in user mode, <<>> when the
\* tick is neither
UserRequest ==
    IF ~UserMode(cp0_reg) \/ fault # NoFault THEN <<>>
    ELSE IF phase = "Fetch" THEN <<pc>>
    ELSE IF phase = "DecodeAndExecute" /\ Opcode(decoded') \in LoadOpcodes
            /\ Rt(decoded') # 0
         THEN <<TransactionAddress(int_reg, decoded')>>
    ELSE <<>>

\* C6: in user mode a fetch, or a load (lb, lbu, lh, lhu, lw, lwl, lwr) with
\* rt # 0, whose address has bit 31 set is cancelled and takes IllegalAddressLoad:
\* Cause[6:2] = 4, BadVaddr = that address, PC = 0x80000180; and the WriteBack
\* tick after a cancelled load changes no general register.
C6_UserLoadTakesException ==
    [][/\ (/\ UserRequest # <<>>
           /\ Bit31(UserRequest[1])
           /\ fault' = NoFault)
          => (/\ memory_buffer'.data_size = 0
              /\ Len(raised') = 1
              /\ raised'[1].code = IllegalAddressLoad
              /\ CauseCode(cp0_reg') = IllegalAddressLoad
              /\ cp0_reg'[BadVaddrReg] = UserRequest[1]
              /\ pc' = EXCEPTION_HANDLER_ADDRESS)
       /\ (/\ phase = "WriteBack"
           /\ raised # <<>>
           /\ raised[1].code = IllegalAddressLoad
           /\ fault' = NoFault)
          => int_reg' = int_reg
      ]_vars

\* C6's case: the WriteBack tick after a lwl from the kernel segment that was
\* cancelled in user mode has run, the destination register still holds what it
\* held, and Cause and BadVaddr name the load.
C6_Witness ==
    /\ fault = NoFault
    /\ phase = "InterruptCheck"
    /\ decoded = LWL_2_HIGH
    /\ last_exception # <<>>
    /\ last_exception.code = IllegalAddressLoad
    /\ UserMode(last_exception.pre.cp0_reg)
    /\ last_exception.bad = <<WordAddress(AddressOf(int_reg, decoded))>>
    /\ pc = EXCEPTION_HANDLER_ADDRESS
    /\ cp0_reg[BadVaddrReg] = last_exception.bad[1]
    /\ int_reg[2] = Zero32

\* C7: raising an exception shifts the 6-bit Status mode stack left by two:
\* Status[5:4] becomes the old Status[3:2], Status[3:2] the old Status[1:0], and
\* Status[1:0] becomes 00.
C7_ExceptionShiftsModeStack ==
    \A i \in DOMAIN raised :
        ModeStack(raised[i].post.cp0_reg) = (ModeStack(raised[i].pre.cp0_reg) % 16) * 4

\* C8: when executing the instruction fetched at address A raises an exception
\* (syscall, break, overflow, a taken trap), EPC equals A afterwards. On entry to
\* the DecodeAndExecute tick the buffer still holds the fetch request, whose
\* address is A.
C8_EpcIsInstructionAddress ==
    [][(/\ phase = "DecodeAndExecute"
        /\ fault' = NoFault
        /\ raised' # <<>>
        /\ raised'[1].code \in {Syscall, Break, Overflow, CalledTrap})
       => cp0_reg'[EpcReg] = memory_buffer.address
      ]_vars

\* C9: an exception followed by eret restores PC to the PC before the exception
\* and Status bits [1:0] and [3:2] to their values before the exception.
C9_EretRoundTrip ==
    [][(/\ phase = "DecodeAndExecute"
        /\ decoded' = ERET
        /\ fault' = NoFault
        /\ last_exception # <<>>)
       => (/\ pc' = last_exception.pre.pc
           /\ ModeStack(cp0_reg') % 16 = ModeStack(last_exception.pre.cp0_reg) % 16)
      ]_vars

\* C10: raising an exception with code c sets Cause[6:2] = c and PC = 0x80000180,
\* leaves the Cause bits outside [6:2] as they were, writes BadVaddr exactly when
\* an offending address is supplied, and changes no GPR, HI, LO or FP register.
C10_ExceptionFrame ==
    \A i \in DOMAIN raised :
        LET e == raised[i]
            before == e.pre.cp0_reg[CauseReg]
            after == e.post.cp0_reg[CauseReg]
        IN  /\ CauseCode(e.post.cp0_reg) = e.code
            /\ after[1] = before[1]
            /\ after[2] % 4 = before[2] % 4
            /\ after[2] \div 128 = before[2] \div 128
            /\ e.post.pc = EXCEPTION_HANDLER_ADDRESS
            /\ e.post.cp0_reg[BadVaddrReg] =
                    (IF e.bad # <<>> THEN e.bad[1] ELSE e.pre.cp0_reg[BadVaddrReg])
            /\ e.post.int_reg = e.pre.int_reg
            /\ e.post.hi = e.pre.hi
            /\ e.post.lo = e.pre.lo
            /\ e.post.cp1_reg = e.pre.cp1_reg

\* C10's case: an exception with an offending address (a fetch from the kernel
\* segment in user mode) taken while Cause still holds another code, that of the
\* earlier syscall, and while a register holds a loaded value.
C10_Witness ==
    /\ fault = NoFault
    /\ raised # <<>>
    /\ raised[1].code = IllegalAddressLoad
    /\ raised[1].bad # <<>>
    /\ CauseCode(raised[1].pre.cp0_reg) = Syscall
    /\ CauseCode(cp0_reg) = IllegalAddressLoad
    /\ cp0_reg[BadVaddrReg] = raised[1].bad[1]

\* C11: GPR[0] = 0 in every reachable state, whatever instruction, writeback,
\* link write or coprocessor move names register 0 as its destination.
C11_RegisterZero == int_reg[0] = Zero32

\* C11's case: an ori that names $0 as destination with a non-zero result has
\* been executed, after a jalr that linked into $0.
C11_Witness ==
    /\ fault = NoFault
    /\ ticks = 6
    /\ decoded = ORI_0_0_ALL
    /\ pc = U32(4)
    /\ int_reg[0] = Zero32

\* C16: j addr26 sets PC = (PC & 0xF0000000) | (addr26 << 2) with the PC after the
\* fetch; jal also writes that PC into GPR[31]; neither changes another register.
C16_Jump ==
    [][(/\ phase = "DecodeAndExecute"
        /\ fault = NoFault
        /\ fault' = NoFault
        /\ Opcode(decoded') \in {2, 3})
       => (/\ pc' = W((pc[1] \div 2 ^ 12) * 2 ^ 12
                        + (Address26(decoded') \div 2 ^ 14),
                      (Address26(decoded') % 2 ^ 14) * 4)
           /\ int_reg' = IF Opcode(decoded') = 3 THEN [int_reg EXCEPT ![31] = pc]
                         ELSE int_reg
           /\ UNCHANGED <<hi, lo, cp0_reg, cp1_reg, cc>>)
      ]_vars

\* C16's case: a jal executed at the exception handler, where the top four bits of
\* PC are 1000, has kept them and linked the address after the jal.
C16_Witness ==
    /\ fault = NoFault
    /\ phase = "WriteBack"
    /\ decoded = JAL_HIGH
    /\ pc = W(32768 + 4095, Half - 4)
    /\ int_reg[31] = W(32768, 388)

\* C12: after a complete load cycle lb leaves GPR[rt] = the byte sign-extended,
\* lbu the byte zero-extended, lh the halfword sign-extended and lhu the halfword
\* zero-extended.
C12_SubwordExtension ==
    \A n \in 1..Len(executed) :
        LET load == executed[n]
            a == Imm(load)
            byte == ByteAt(ram, a)
            half == ByteAt(ram, a) * Byte + ByteAt(ram, a + 1)
        IN  (/\ n = Len(executed)
             /\ fault = NoFault
             /\ Opcode(load) \in {32, 33, 36, 37}
             /\ Rs(load) = 0 /\ Rt(load) # 0 /\ a < Half \div 2)
            => int_reg[Rt(load)] =
                    CASE Opcode(load) = 32 ->
                            W(IF byte >= 128 THEN Half - 1 ELSE 0,
                              IF byte >= 128 THEN Half - Byte + byte ELSE byte)
                      [] Opcode(load) = 36 -> W(0, byte)
                      [] Opcode(load) = 33 ->
                            W(IF half >= Half \div 2 THEN Half - 1 ELSE 0, half)
                      [] Opcode(load) = 37 -> W(0, half)

\* the exact sum and difference of two words read as i32 fit in an i32
MaxI32 == (Half \div 2 - 1) * Half + (Half - 1)
ExactSumFits(x, y) ==
    IF x >= 0 /\ y >= 0 THEN x <= MaxI32 - y
    ELSE IF x < 0 /\ y < 0 THEN x >= (-MaxI32 - 1) - y
    ELSE TRUE
ExactDifferenceFits(x, y) ==
    IF x >= 0 /\ y < 0 THEN x <= MaxI32 + y
    ELSE IF x < 0 /\ y >= 0 THEN x >= (-MaxI32 - 1) + y
    ELSE TRUE
\* the exact result of the add, sub or addi word on the registers regs fits
ExactResultFits(regs, instruction) ==
    IF Opcode(instruction) = 8
    THEN ExactSumFits(ToI32(regs[Rs(instruction)]), ToI32(SignExtend16(Imm(instruction))))
    ELSE IF Funct(instruction) = 32
    THEN ExactSumFits(ToI32(regs[Rs(instruction)]), ToI32(regs[Rt(instruction)]))
    ELSE ExactDifferenceFits(ToI32(regs[Rs(instruction)]), ToI32(regs[Rt(instruction)]))
Last(seq) == seq[Len(seq)]
IsCheckedArithmetic(instruction) ==
    \/ Opcode(instruction) = 8
    \/ Opcode(instruction) = 0 /\ Funct(instruction) \in {32, 34}

\* C13: add, sub and addi raise Overflow (code 12) exactly when the exact signed
\* result does not fit in 32 bits, and raise nothing when it fits.
C13_OverflowExact ==
    [][(/\ Len(executed') = Len(executed) + 1
        /\ IsCheckedArithmetic(Last(executed'))
        /\ fault' \in {NoFault, AddOverflowMsg, SubOverflowMsg})
       => (/\ fault' = NoFault
           /\ (\E k \in DOMAIN raised' : raised'[k].code = Overflow)
                <=> ~ExactResultFits(int_reg, Last(executed'))
           /\ \A k \in DOMAIN raised' : raised'[k].code = Overflow)
      ]_vars

\* C15: beq with equal operands sets PC to (PC after the fetch) + 4 * N modulo
\* 2^32 for the immediate N read as a signed 16-bit value; with unequal operands
\* it leaves the PC after the fetch.
C15_BranchTarget ==
    [][(/\ Len(executed') = Len(executed) + 1
        /\ Opcode(Last(executed')) = 4
        /\ fault' \in {NoFault, MulOverflowMsg})
       => (/\ fault' = NoFault
           /\ pc' = IF int_reg[Rs(Last(executed'))] = int_reg[Rt(Last(executed'))]
                    THEN Add32(Add32(pc, U32(4)),
                               ShlN(SignExtend16(Imm(Last(executed'))), 2))
                    ELSE Add32(pc, U32(4)))
      ]_vars

\* what C14 says of a Fetch tick: PC advances by 4 and the buffer returned asks to
\* read 4 bytes at the PC before the tick
FetchRequested ==
    /\ pc' = Add32(pc, U32(4))
    /\ memory_buffer'.address = pc
    /\ memory_buffer'.data_size = 4
    /\ ~memory_buffer'.store

\* C14 as stated: after every Fetch tick, in either privilege mode and at any PC,
\* PC = PC before + 4 and the buffer returned is a read request of size 4 at the
\* PC before the tick.
C14_FetchAlwaysRequests ==
    [][(phase = "Fetch" /\ fault = NoFault /\ fault' = NoFault) => FetchRequested]_vars

\* C14 amended: after a Fetch tick PC = PC before + 4 and the buffer returned is a
\* read request of size 4 at the PC before the tick, unless the processor is in
\* user mode and that PC has bit 31 set: then the request is cancelled
\* (data_size = 0), IllegalAddressLoad is taken and PC = 0x80000180.
C14_FetchRequestsUnlessCancelled ==
    [][(phase = "Fetch" /\ fault = NoFault /\ fault' = NoFault)
       => IF UserMode(cp0_reg) /\ Bit31(pc)
          THEN /\ memory_buffer'.address = pc
               /\ memory_buffer'.data_size = 0
               /\ ~memory_buffer'.store
               /\ pc' = EXCEPTION_HANDLER_ADDRESS
               /\ CauseCode(cp0_reg') = IllegalAddressLoad
          ELSE FetchRequested
      ]_vars

\* C14's case: a Fetch tick in user mode at a PC of the user segment has advanced
\* PC and asked for the instruction.
C14_Witness ==
    /\ fault = NoFault
    /\ phase = "DecodeAndExecute"
    /\ ticks = 9
    /\ UserMode(cp0_reg)
    /\ pc = U32(8)
    /\ memory_buffer.address = U32(4)
    /\ memory_buffer.data_size = 4

\* C17: after every WriteBack tick data_size = 0, and it is still 0 after the
\* InterruptCheck tick that follows: no transaction is pending when the interrupt
\* requests are sampled.
C17_BufferDiscipline ==
    (fault = NoFault /\ (phase = "InterruptCheck" \/ (phase = "Fetch" /\ ticks > 0)))
        => memory_buffer.data_size = 0

\* C17's case: a WriteBack tick has written a loaded word to its register and the
\* buffer is reset.
C17_Witness ==
    /\ fault = NoFault
    /\ phase = "InterruptCheck"
    /\ decoded = LW_1_LOW
    /\ int_reg[1] = DATA_MAXINT
    /\ memory_buffer.write_back_register = 1
    /\ memory_buffer.data_size = 0

\* C19: an InterruptCheck tick raises Interrupt (code 0) if and only if Status bit
\* 0 is 1 and interrupt_requests & ((Status >> 8) & 0xFF) is not 0; otherwise it
\* leaves PC, EPC and Status as they are.
C19_InterruptIff ==
    (fault = NoFault /\ phase = "InterruptCheck")
        => \A interrupt_requests \in InterruptRequests :
            LET t == tick(CpuRec, Zero32, interrupt_requests)
                status == cp0_reg[StatusReg]
                pending == BitAnd(interrupt_requests, (status[2] \div 256) % 256) # 0
            IN  /\ t.fault = NoFault
                /\ IF status[2] % 2 = 1 /\ pending
                   THEN Len(t.raised) = 1 /\ t.raised[1].code = Interrupt
                   ELSE /\ t.raised = <<>>
                        /\ t.pc = pc
                        /\ t.cp0_reg[EpcReg] = cp0_reg[EpcReg]
                        /\ t.cp0_reg[StatusReg] = cp0_reg[StatusReg]

\* C19's case: an InterruptCheck tick with interrupts enabled has taken the
\* interrupt, after an earlier one with interrupts disabled took none.
C19_Witness ==
    /\ fault = NoFault
    /\ phase = "Fetch"
    /\ ticks = 12
    /\ raised # <<>>
    /\ raised[1].code = Interrupt
    /\ raised[1].pre.cp0_reg[StatusReg][2] % 2 = 1
    /\ CauseCode(raised[1].pre.cp0_reg) = Syscall

\* C20: in a Fetch, DecodeAndExecute or WriteBack tick the processor and the
\* buffer it returns do not depend on interrupt_requests: two runs that differ
\* only in the requests of such ticks are in the same state after every tick.
C20_RequestsSampledAtInterruptCheck ==
    (fault = NoFault /\ phase # "InterruptCheck")
        => \A data \in Words, interrupt_requests \in InterruptRequests \ {0} :
            tick(CpuRec, data, interrupt_requests) = tick(CpuRec, data, 0)

\* C20's case: a load is in flight at a WriteBack tick while interrupts are
\* enabled and unmasked, so that a request would be taken if it were sampled.
C20_Witness ==
    /\ fault = NoFault
    /\ phase = "WriteBack"
    /\ memory_buffer.data_size = 4
    /\ cp0_reg[StatusReg][2] % 2 = 1
    /\ (cp0_reg[StatusReg][2] \div 256) % 256 # 0
    /\ tick(CpuRec, DATA_MAXINT, 1).int_reg[1] = DATA_MAXINT

\* w & 0xFF, w & 0xFFFF and w for size 1, 2 and 4
LowBytes(w, size) ==
    CASE size = 1 -> W(0, w[2] % 256)
      [] size = 2 -> W(0, w[2])
      [] size = 4 -> w

\* C18: for every address a with a + size within the RAM and every word w,
\* write_data(a, w, size) then read_data(a, size) gives w for size 4,
\* w & 0xFFFF for size 2 and w & 0xFF for size 1; after a word write the byte at
\* a is the most significant byte of w; the bytes outside [a, a + size) are
\* unchanged.
C18_BigEndianRoundTrip ==
    \A a \in MemoryAddresses, w \in MemoryWords, size \in MemorySizes :
        InBounds(a, size) =>
            LET written == write_data(ram, a, w, size)
                back == read_data(written.ram, a, size)
                range == {Index(a) + i : i \in 0 .. size - 1}
            IN  /\ written.fault = NoFault
                /\ back.fault = NoFault
                /\ back.value = LowBytes(w, size)
                /\ size = 4 => ByteAt(written.ram, Index(a)) = w[1] \div 256
                /\ \A x \in (DOMAIN ram \cup DOMAIN written.ram) \ range :
                      ByteAt(written.ram, x) = ByteAt(ram, x)

\* C18's case: the word 0x11223344 has been written at 1 over bytes of an earlier
\* write at 0, whose first byte is still there, and reads back.
C18_Witness ==
    /\ fault = NoFault
    /\ Len(bus) = 2
    /\ bus[1] = Access("write", U32(0), 4)
    /\ bus[2] = Access("write", U32(1), 4)
    /\ ByteAt(ram, 0) = 128
    /\ ByteAt(ram, 1) = 17
    /\ ByteAt(ram, 4) = 68
    /\ read_data(ram, U32(1), 4).value = DATA_MIXED

\* the buffer the Fetch tick of the next cpu_step returns
FetchRequest == tick(CpuRec, Zero32, 0).memory_buffer

\* C21: when the Fetch tick of a cpu_step returns a buffer with data_size = 0 (the
\* fetch was cancelled by the privilege check), the step reads no RAM at the
\* address of the fetch and runs no instruction word.
C21_NoAccessForCancelledFetch ==
    [][(fault = NoFault /\ tick(CpuRec, Zero32, 0).fault = NoFault
                        /\ FetchRequest.data_size = 0)
       => /\ \A i \in DOMAIN bus' : bus'[i].address # FetchRequest.address
          /\ executed' = executed
      ]_vars

\* C22: main's machine loops on `j 0`: after every cpu_step the phase is Fetch
\* with PC = 0, no exception was raised, nothing panicked (so that run() takes the
\* next step), no general register and no byte of RAM has changed, and every
\* instruction run was the loop instruction read at 0.
C22_DefaultLoop ==
    /\ fault = NoFault
    /\ phase = "Fetch"
    /\ pc = Zero32
    /\ raised = <<>>
    /\ last_exception = <<>>
    /\ int_reg = CPU_new(overflow_checks).int_reg
    /\ ram = Computer_new_ram
    /\ \A i \in DOMAIN executed : executed[i] = LoopInstruction
    /\ \A i \in DOMAIN bus : bus[i] = Access("read", Zero32, 4)

\* C22's case: the loop instruction has been run eight times.
C22_Witness ==
    /\ fault = NoFault
    /\ Len(executed) = 8
    /\ executed[8] = LoopInstruction
    /\ ticks = 32
    /\ pc = Zero32
    /\ cp0_reg = CPU_new(overflow_checks).cp0_reg

\* C23: rfe executed in kernel mode shifts the Status mode stack right by two:
\* Status[1:0] = old Status[3:2], Status[3:2] = old Status[5:4], Status[5:4] and
\* the bits above bit 5 are unchanged, and PC is unchanged; eret does the same
\* and then sets PC = EPC. No other register changes.
C23_RfeShiftsRight ==
    [][(/\ phase = "DecodeAndExecute"
        /\ fault = NoFault
        /\ decoded' \in {RFE, ERET}
        /\ ~UserMode(cp0_reg))
       => LET old == cp0_reg[StatusReg]
              new == cp0_reg'[StatusReg]
          IN  /\ fault' = NoFault
              /\ phase' = "WriteBack"
              /\ new[2] % 4 = (old[2] \div 4) % 4
              /\ (new[2] \div 4) % 4 = (old[2] \div 16) % 4
              /\ new[2] \div 16 = old[2] \div 16
              /\ new[1] = old[1]
              /\ \A r \in DOMAIN cp0_reg : r # StatusReg => cp0_reg'[r] = cp0_reg[r]
              /\ pc' = IF decoded' = RFE THEN pc ELSE cp0_reg[EpcReg]
              /\ int_reg' = int_reg
              /\ raised' = <<>>
      ]_vars

\* C23's case: an eret in the handler of a syscall has returned to EPC with the
\* stack 111100 shifted to 111111.
C23_Witness ==
    /\ fault = NoFault
    /\ phase = "WriteBack"
    /\ decoded = ERET
    /\ last_exception # <<>>
    /\ last_exception.code = Syscall
    /\ ModeStack(last_exception.post.cp0_reg) = 60
    /\ ModeStack(cp0_reg) = 63
    /\ pc = cp0_reg[EpcReg]
    /\ pc = U32(4)

\* the exception code C24 gives for syscall and break
SystemCallCode(instruction) == IF instruction = SYSCALL THEN Syscall ELSE Break

\* C24: executing syscall takes the Syscall exception (Cause[6:2] = 8) and
\* executing break takes the Break exception (Cause[6:2] = 9); PC becomes
\* 0x80000180, and the WriteBack and InterruptCheck ticks of the cycle follow
\* without a fault and without moving PC.
C24_SyscallAndBreak ==
    [][/\ (phase = "DecodeAndExecute" /\ fault = NoFault /\ decoded' \in {SYSCALL, BREAK})
          => /\ fault' = NoFault
             /\ phase' = "WriteBack"
             /\ Len(raised') = 1
             /\ raised'[1].code = SystemCallCode(decoded')
             /\ CauseCode(cp0_reg') = SystemCallCode(decoded')
             /\ pc' = EXCEPTION_HANDLER_ADDRESS
       /\ (phase \in {"WriteBack", "InterruptCheck"} /\ fault = NoFault
                                                     /\ decoded \in {SYSCALL, BREAK})
          => /\ fault' = NoFault
             /\ phase' = IF phase = "WriteBack" THEN "InterruptCheck" ELSE "Fetch"
             /\ pc' = pc
      ]_vars

\* C30: in kernel mode mfc0 rt, rd sets GPR[rt] = CP0[rd] and mtc0 rt, rd sets
\* CP0[rd] = GPR[rt], nothing else changes, and the DecodeAndExecute tick returns
\* with the phase at WriteBack; in user mode the tick is fatal.
C30_Coprocessor0Moves ==
    [][(phase = "DecodeAndExecute" /\ fault = NoFault
                                   /\ decoded' \in {MFC0_2_STATUS, MTC0_1_EPC})
       => IF UserMode(cp0_reg) THEN fault' # NoFault
          ELSE /\ fault' = NoFault
               /\ phase' = "WriteBack"
               /\ raised' = <<>>
               /\ pc' = pc
               /\ IF decoded' = MFC0_2_STATUS
                  THEN /\ int_reg' = [int_reg EXCEPT ![2] = cp0_reg[StatusReg]]
                       /\ cp0_reg' = cp0_reg
                  ELSE /\ cp0_reg' = [cp0_reg EXCEPT ![EpcReg] = int_reg[1]]
                       /\ int_reg' = int_reg
      ]_vars

\* the bytes b[from .. to] of the word w, most significant first
BytesOf(w, from, to) == SubSeq(BeBytes(w), from, to)

\* the merge C25 describes, for k = addr mod 4: lwl puts bytes k .. 3 of the
\* word (big-endian numbering) in the high 4 - k bytes of the register and keeps
\* its low k bytes; lwr puts bytes 0 .. k of the word in the low k + 1 bytes and
\* keeps the high 3 - k bytes
MergeLeft(content, word, k) ==
    FromBeBytes(BytesOf(word, k + 1, 4) \o BytesOf(content, 5 - k, 4))
MergeRight(content, word, k) ==
    FromBeBytes(BytesOf(content, 1, 3 - k) \o BytesOf(word, 1, k + 1))

\* C25: the WriteBack tick of lwl / lwr rt merges the word read at the aligned
\* address into GPR[rt] at byte granularity, k being the address mod 4.
C25_UnalignedMerge ==
    [][(/\ phase = "WriteBack"
        /\ fault = NoFault
        /\ Opcode(decoded) \in {34, 38}
        /\ memory_buffer.data_size > 0)
       => LET k == Imm(decoded) % 4
              rt == Rt(decoded)
              word == memory_buffer'.data
          IN  /\ fault' = NoFault
              /\ int_reg'[rt] = IF Opcode(decoded) = 34
                                THEN MergeLeft(int_reg[rt], word, k)
                                ELSE MergeRight(int_reg[rt], word, k)
      ]_vars

\* |w| of the word read as an i32, as an unsigned word (2^31 for the least i32)
Magnitude(w) == IF Neg32(w) THEN Sub32(Zero32, w) ELSE w

\* -p for p a 64-bit value <<high, low>>
Negate64(p) ==
    <<Add32(Not32(p[1]), IF p[2] = Zero32 THEN One32 ELSE Zero32), Sub32(Zero32, p[2])>>

\* the 64-bit two's-complement product of two words read as i32
SignedProduct(a, b) ==
    LET magnitude == MulU64(Magnitude(a), Magnitude(b))
    IN  IF Neg32(a) # Neg32(b) THEN Negate64(magnitude) ELSE magnitude

\* C26: after mult rs, rt HI:LO is the 64-bit two's-complement product of GPR[rs]
\* and GPR[rt] read as signed; after multu it is their product read as unsigned.
C26_Products ==
    [][(phase = "DecodeAndExecute" /\ fault = NoFault /\ decoded' \in {MULT_1_2, MULTU_1_2})
       => /\ fault' = NoFault
          /\ <<hi', lo'>> = IF decoded' = MULT_1_2
                            THEN SignedProduct(int_reg[1], int_reg[2])
                            ELSE MulU64(int_reg[1], int_reg[2])
      ]_vars

\* C27: slt rd, rs, rt writes 1 to GPR[rd] exactly when GPR[rs] < GPR[rt] as
\* signed 32-bit integers and 0 otherwise, for every pair of operands; slti does
\* the same against the sign-extended immediate.
C27_SignedLessThan ==
    [][(phase = "DecodeAndExecute" /\ fault = NoFault
                                   /\ (decoded' = SLT_3_1_2 \/ Opcode(decoded') = 10))
       => LET op2 == IF decoded' = SLT_3_1_2 THEN int_reg[2]
                     ELSE SignExtend16(Imm(decoded'))
          IN  /\ fault' = NoFault
              /\ int_reg'[3] = IF ToI32(int_reg[1]) < ToI32(op2) THEN One32 ELSE Zero32
      ]_vars

\* C28: blez rs branches exactly when GPR[rs] read as a signed 32-bit integer is
\* <= 0 and bgtz rs exactly when it is > 0: of the two, one branches.
C28_BranchOnSign ==
    [][(phase = "DecodeAndExecute" /\ fault = NoFault /\ decoded' \in {BLEZ_1, BGTZ_1})
       => LET taken == IF decoded' = BLEZ_1 THEN ToI32(int_reg[1]) <= 0
                       ELSE ToI32(int_reg[1]) > 0
          IN  /\ fault' = NoFault
              /\ pc' = IF taken THEN Add32(pc, U32(8)) ELSE pc
              /\ blez(CpuRec, 1, 2).pc = pc \/ bgtz(CpuRec, 1, 2).pc = pc
              /\ blez(CpuRec, 1, 2).pc # pc \/ bgtz(CpuRec, 1, 2).pc # pc
      ]_vars

\* the unsigned value of a word, in units that keep it within the integers:
\* <<high half, low half>> compared in that order
BelowUnsigned(a, b) == a[1] < b[1] \/ (a[1] = b[1] /\ a[2] < b[2])

\* the predicate of the compare-and-trap instruction on the registers regs:
\* teq(i) 52 / 12, tne(i) 54 / 14, tge(i) 48 / 8, tgeu / tgeiu 49 / 9,
\* tlt(i) 50 / 10, tltu / tltiu 51 / 11
TrapPredicate(regs, instruction) ==
    LET immediate == Opcode(instruction) = 1
        kind == IF immediate THEN Rt(instruction) - 8 ELSE Funct(instruction) - 48
        op1 == regs[Rs(instruction)]
        op2 == IF immediate THEN SignExtend16(Imm(instruction)) ELSE regs[Rt(instruction)]
    IN  CASE kind = 0 -> ToI32(op1) >= ToI32(op2)
          [] kind = 1 -> ~BelowUnsigned(op1, op2)
          [] kind = 2 -> ToI32(op1) < ToI32(op2)
          [] kind = 3 -> BelowUnsigned(op1, op2)
          [] kind = 4 -> op1 = op2
          [] kind = 6 -> op1 # op2

\* C29: a compare-and-trap instruction raises CalledTrap (code 13) exactly when
\* its predicate holds and otherwise changes no register; either way the
\* DecodeAndExecute tick returns with the phase at WriteBack.
C29_TrapIffPredicate ==
    [][(phase = "DecodeAndExecute" /\ fault = NoFault /\ decoded' \in TrapWords)
       => /\ fault' = NoFault
          /\ phase' = "WriteBack"
          /\ IF TrapPredicate(int_reg, decoded')
             THEN /\ Len(raised') = 1
                  /\ raised'[1].code = CalledTrap
                  /\ CauseCode(cp0_reg') = CalledTrap
                  /\ pc' = EXCEPTION_HANDLER_ADDRESS
             ELSE /\ raised' = <<>>
                  /\ <<int_reg', cp0_reg', hi', lo', pc'>> = <<int_reg, cp0_reg, hi, lo, pc>>
      ]_vars

\* C31: div and divu with a non-zero divisor leave LO = quotient and HI =
\* remainder (signed and truncating toward zero for div, unsigned for divu);
\* with GPR[rt] = 0 no exception is raised, Cause, EPC, Status and PC are
\* unchanged, and the tick completes without a panic.
C31_Division ==
    [][(phase = "DecodeAndExecute" /\ fault = NoFault /\ decoded' \in {DIV_1_2, DIVU_1_2})
       => /\ fault' = NoFault
          /\ phase' = "WriteBack"
          /\ IF int_reg[2] = Zero32
             THEN /\ raised' = <<>>
                  /\ <<cp0_reg', pc'>> = <<cp0_reg, pc>>
             ELSE IF decoded' = DIV_1_2
             THEN /\ lo' = FromI32(TruncDiv(ToI32(int_reg[1]), ToI32(int_reg[2])))
                  /\ hi' = FromI32(TruncRem(ToI32(int_reg[1]), ToI32(int_reg[2])))
             ELSE /\ lo' = DivU32(int_reg[1], int_reg[2])
                  /\ hi' = RemU32(int_reg[1], int_reg[2])
      ]_vars

\* the result of the add, sub or addi word on the registers regs, modulo 2^32
TruncatedResult(regs, instruction) ==
    IF Opcode(instruction) = 8
    THEN Add32(regs[Rs(instruction)], SignExtend16(Imm(instruction)))
    ELSE IF Funct(instruction) = 32
    THEN Add32(regs[Rs(instruction)], regs[Rt(instruction)])
    ELSE Sub32(regs[Rs(instruction)], regs[Rt(instruction)])

\* C32: an exception raised during DecodeAndExecute does not abort the
\* instruction cycle: an overflowing add, sub or addi returns with the result
\* modulo 2^32 in its destination register, the phase at WriteBack and no
\* transaction pending (data_size = 0); so does any DecodeAndExecute tick that
\* raised an exception; and the tick after it moves the phase to InterruptCheck.
C32_ExceptionKeepsCycle ==
    [][/\ (phase = "DecodeAndExecute" /\ fault = NoFault /\ decoded' \in OverflowWords
                                      /\ ~ExactResultFits(int_reg, decoded'))
          => /\ fault' = NoFault
             /\ int_reg'[3] = TruncatedResult(int_reg, decoded')
             /\ phase' = "WriteBack"
             /\ memory_buffer'.data_size = 0
       /\ (phase = "DecodeAndExecute" /\ raised' # <<>>)
          => /\ fault' = NoFault
             /\ phase' = "WriteBack"
             /\ memory_buffer'.data_size = 0
       /\ (phase = "WriteBack" /\ fault = NoFault /\ raised # <<>>)
          => /\ fault' = NoFault
             /\ phase' = "InterruptCheck"
             /\ memory_buffer'.data_size = 0
      ]_vars

\* the instruction words that a decoder other than decode_int_instruction has an
\* arm for: the state after that decoder differs, or its arm is a comparison,
\* a move or an operation of coprocessor 1 or a compare-and-trap
RecognizedWords ==
    {MFC0_2_STATUS, MTC0_1_EPC} \cup Cp1Words
        \cup {TRAP_1_2(funct) : funct \in TrapFuncts}
        \cup {TRAPI_1(rt, 1) : rt \in TrapImmediates}

\* C33: "Bad instruction" is raised only for words that no decoder recognizes:
\* the DecodeAndExecute tick of a word of the cp0 decoder (mfc0, mtc0), of the
\* cp1 decoder (lwc1, swc1, mfc1, mtc1, arithmetic, comparisons, moves) or of the
\* trap decoder (teq .. tltiu) does not end in that fault.
C33_BadInstructionOnlyIfUnknown ==
    [][(phase = "DecodeAndExecute" /\ fault = NoFault /\ decoded' \in RecognizedWords)
       => fault' # BadInstructionMsg
      ]_vars

\* C34: with the driver and the 32 MiB RAM of main, the cpu_step that follows a
\* step in which an exception was taken reads the handler's first word from RAM
\* at 0x80000180 and ends without a panic: no index is out of range.
C34_HandlerFetchServed ==
    [][(fault = NoFault /\ raised # <<>>)
       => /\ pc = EXCEPTION_HANDLER_ADDRESS
          /\ bus' # <<>>
          /\ bus'[1] = Access("read", EXCEPTION_HANDLER_ADDRESS, 4)
          /\ fault' = NoFault
          /\ Len(executed') = Len(executed) + 1
      ]_vars

InterruptsEnabled(cp0) == cp0[StatusReg][2] % 2 = 1
TookInterrupt(exceptions) == \E k \in DOMAIN exceptions : exceptions[k].code = Interrupt
\* mtc0 rt, $12
WritesStatus(instruction) ==
    Opcode(instruction) = 16 /\ Rs(instruction) = 4 /\ Funct(instruction) = 0
                             /\ Rd(instruction) = StatusReg
AnyRequests == {1, 2, 128, 255}

\* C35: interrupts do not nest.  The tick that takes an Interrupt leaves Status
\* bit 0 clear; while it is clear an InterruptCheck tick takes no Interrupt,
\* whatever interrupt_requests it is given; and only the DecodeAndExecute tick
\* of rfe, eret or mtc0 to Status sets it again.
C35_InterruptsDoNotNest ==
    [][/\ TookInterrupt(raised') => ~InterruptsEnabled(cp0_reg')
       /\ (fault = NoFault /\ phase = "InterruptCheck" /\ ~InterruptsEnabled(cp0_reg))
          => /\ ~TookInterrupt(raised')
             /\ \A interrupt_requests \in AnyRequests :
                    ~TookInterrupt(tick(CpuRec, Zero32, interrupt_requests).raised)
       /\ (~InterruptsEnabled(cp0_reg) /\ InterruptsEnabled(cp0_reg'))
          => /\ phase = "DecodeAndExecute"
             /\ decoded' \in {RFE, ERET} \/ WritesStatus(decoded')
      ]_vars

\* C35's case: an Interrupt was taken, and the InterruptCheck tick of the next
\* instruction cycle was given a request (Cause holds it) and took nothing.
C35_Witness ==
    /\ fault = NoFault
    /\ phase = "Fetch"
    /\ ticks = 8
    /\ last_exception # <<>>
    /\ last_exception.code = Interrupt
    /\ raised = <<>>
    /\ (cp0_reg[CauseReg][2] \div Byte) % 2 = 1
    /\ ~InterruptsEnabled(cp0_reg)

\* C36: an Interrupt is taken only by an InterruptCheck tick, and it saves in EPC
\* the PC that tick was entered with and goes to the handler; that PC is the
\* address of the next fetch: an InterruptCheck tick that takes nothing leaves
\* it alone and the Fetch tick requests the word at it; and an eret executed
\* while the Interrupt is the last exception taken puts that PC back, taking no
\* exception itself, so that the next fetch is the one the Interrupt replaced.
C36_InterruptSavesNextPc ==
    [][/\ TookInterrupt(raised')
          => /\ phase = "InterruptCheck"
             /\ Len(raised') = 1
             /\ cp0_reg'[EpcReg] = pc
             /\ pc' = EXCEPTION_HANDLER_ADDRESS
       /\ (phase = "InterruptCheck" /\ raised' = <<>>) => pc' = pc
       /\ (phase = "Fetch" /\ fault' = NoFault)
          => /\ memory_buffer'.address = pc
             /\ pc' = IF raised' = <<>> THEN Add32(pc, U32(4))
                      ELSE EXCEPTION_HANDLER_ADDRESS
       /\ (/\ phase = "DecodeAndExecute"
           /\ decoded' = ERET
           /\ fault' = NoFault
           /\ last_exception # <<>>
           /\ last_exception.code = Interrupt)
          => /\ raised' = <<>>
             /\ cp0_reg[EpcReg] = last_exception.pre.pc
             /\ pc' = last_exception.pre.pc
      ]_vars

\* C36's case: an Interrupt taken after the first instruction, with PC = 4, and
\* the eret of the handler just executed: PC is 4 again.
C36_Witness ==
    /\ fault = NoFault
    /\ phase = "WriteBack"
    /\ decoded = ERET
    /\ raised = <<>>
    /\ last_exception # <<>>
    /\ last_exception.code = Interrupt
    /\ last_exception.pre.pc = U32(4)
    /\ cp0_reg[EpcReg] = U32(4)
    /\ pc = U32(4)

\* C37: in user mode a tick that takes no exception leaves Status, EPC and
\* BadVaddr as they were (so Status bit 1 stays 1), and a DecodeAndExecute tick
\* given mfc0, mtc0, rfe or eret ends in the panic "Bad privilege" with every
\* CP0 register, every general register and PC as they were.
C37_NoPrivilegeWithoutException ==
    [][(fault = NoFault /\ UserMode(cp0_reg))
          => /\ raised' = <<>>
                => /\ cp0_reg'[StatusReg] = cp0_reg[StatusReg]
                   /\ cp0_reg'[EpcReg] = cp0_reg[EpcReg]
                   /\ cp0_reg'[BadVaddrReg] = cp0_reg[BadVaddrReg]
                   /\ UserMode(cp0_reg')
             /\ (phase = "DecodeAndExecute" /\ decoded' \in PrivilegedWords)
                => /\ fault' = BadPrivilegeMsg
                   /\ raised' = <<>>
                   /\ cp0_reg' = cp0_reg
                   /\ int_reg' = int_reg
                   /\ pc' = pc
      ]_vars

\* C37's case: mtc0 $1, $12 given in user mode with $1 different from Status:
\* the panic, and Status still the user-mode value.
C37_Witness ==
    /\ fault = BadPrivilegeMsg
    /\ decoded = MTC0_1_STATUS
    /\ UserMode(cp0_reg)
    /\ int_reg[1] # cp0_reg[StatusReg]
    /\ int_reg[1] = DATA_MAXINT

====
